---- MODULE Spec2Model ----
(***************************************************************************)
(* The media-backed post lifecycle of the Appwrite client API:             *)
(* createPost, updatePost and deletePost over a file storage bucket and a  *)
(* post document collection that share no transaction.                     *)
(*                                                                         *)
(* A call is a sequence of store requests.  Each action below is one store *)
(* request together with the code that runs after its promise settles, up  *)
(* to the next store request or the return of the call.  Calls of          *)
(* different callers interleave between requests.                          *)
(*                                                                         *)
(* The repository holds two versions of the API module.  Version 1 rethrows*)
(* every failure; version 2 logs failures inside uploadFile, deleteFile and*)
(* createPost and resolves to undefined.  `variant` is the version the     *)
(* callers are linked against.                                             *)
(*                                                                         *)
(* The relationship records (save documents, follow documents) live in two *)
(* further collections with calls of their own (savePost, deleteSavedPost, *)
(* followUser, unfollowUser); SpecSave and SpecFollow run those calls.     *)
(***************************************************************************)
EXTENDS Integers, Sequences, FiniteSets, TLC

\* Number of callers (browser sessions issuing API calls) under Spec.
NumCallers == 1
\* Number of callers whose calls overlap under SpecRace.
NumRacingCallers == 2
\* Number of ids ID.unique() hands out for files.
MaxFiles == 2
\* Number of ids ID.unique() hands out for post documents.
MaxPosts == 1

PostIds == 1..MaxPosts

\* The empty string used for a missing imageId, and a missing document.
NoId == 0
NoDoc == [imageId |-> -1, imageUrl |-> [fileId |-> -1, width |-> 0, height |-> 0, gravity |-> "", quality |-> 0]]
\* The empty string used for a missing imageUrl; also getFilePreview's null.
NoUrl == [fileId |-> 0, width |-> 0, height |-> 0, gravity |-> "", quality |-> 0]

\* How a store promise settles: it resolves with the value, rejects, or
\* resolves with a falsy value (the case the code tests with `if (!x)`).
Outcomes == {"ok", "reject", "null"}

VARIABLES
    files,      \* ids of the files present in the storage bucket
    posts,      \* post collection: PostIds -> document or NoDoc
    nextFile,   \* next id ID.unique() gives a file
    nextPost,   \* next id ID.unique() gives a post document
    call,       \* per caller: the call in progress, or its settled result
    variant     \* the version of the API module in use: 1 or 2

\* Number of callers issuing relationship calls.
NumEdgeCallers == 2
\* Number of users who follow each other, and of users who save posts.
NumUsers == 2
NumSavers == 1
\* Number of users who follow in the runs of SpecFollowPair.
NumFollowers == 1
\* Number of ids ID.unique() hands out for save documents and follow documents.
MaxSaves == 2
MaxFollows == 2

Users == 1..NumUsers
Savers == 1..NumSavers
\* Save documents of different posts never meet in a query: one post is saved.
SavedPostIds == {1}

VARIABLES
    saves,      \* saves collection: set of [id, user, post]
    follows,    \* followers collection: set of [id, followerId, followingId]
    nextSave,   \* next id ID.unique() gives a save document
    nextFollow, \* next id ID.unique() gives a follow document
    ecall       \* per caller: the relationship call in progress, or its result

postVars == <<files, posts, nextFile, nextPost, call>>
edgeVars == <<saves, follows, nextSave, nextFollow, ecall>>

\* a, b: the two ids the call was given (user and post, or follower and
\* following); target: the document id it deletes or found; matched: the ids
\* of the documents unfollowUser's query returned.
IdleEdgeCall ==
    [op |-> "idle", pc |-> "idle", a |-> NoId, b |-> NoId, target |-> NoId,
     matched |-> {},
     result |-> "none", fail |-> "none", err |-> "none", warned |-> FALSE,
     ret |-> NoId, log |-> <<>>]

\* No relationship document and no relationship call.
EdgesIdle ==
    /\ saves = {}
    /\ follows = {}
    /\ nextSave = 1
    /\ nextFollow = 1
    /\ ecall = [c \in 1..NumEdgeCallers |-> IdleEdgeCall]

\* Number of PostStats components showing the post.
NumLikeClients == 1
\* The users whose ids a likes array holds.
LikeUsers == {1, 2}

VARIABLES
    postLikes,  \* the likes attribute stored on the post: array of user ids
    likes,      \* per PostStats component: its `likes` state
    lcall       \* per PostStats component: the likePost call in progress

likeVars == <<postLikes, likes, lcall>>

IdleLikeCall ==
    [pc |-> "idle", likesArray |-> <<>>, result |-> "none", err |-> "none",
     ret |-> <<>>]

\* The post has no like, no component has liked and no call is in progress.
LikesIdle ==
    /\ postLikes = <<>>
    /\ likes = [c \in 1..NumLikeClients |-> <<>>]
    /\ lcall = [c \in 1..NumLikeClients |-> IdleLikeCall]

VARIABLES
    feed,        \* the posts collection as listed: post id -> $updatedAt
    pages,       \* the pages getInfinitePosts has returned, in order
    pageParam,   \* the cursor for the next page, NoId for the first
    hasNextPage, \* FALSE once an empty page has been returned
    pageError    \* TRUE when the last getInfinitePosts rejected

pageVars == <<feed, pages, pageParam, hasNextPage, pageError>>

\* No post to list and no page fetched.
PagesIdle ==
    /\ feed = <<>>
    /\ pages = <<>>
    /\ pageParam = NoId
    /\ hasNextPage = TRUE
    /\ pageError = FALSE

VARIABLES
    tags,       \* post.tags as typed into the form: a string, or undefined
    tagList,    \* the tags array computed from it
    parsed      \* the operation that computed the array, "none" before it

tagVars == <<tags, tagList, parsed>>

\* An empty tags field, not parsed yet.
TagsIdle ==
    /\ tags = <<>>
    /\ tagList = <<>>
    /\ parsed = "none"

VARIABLES
    userDocs,    \* the user collection: user id -> [imageId, imageUrl]
    currentUser, \* user id -> currentUser.save as useGetCurrentUser last returned it
    isSaved      \* <<user id, post id>> -> the isSaved state of that PostStats

userVars == <<userDocs, currentUser, isSaved>>

\* The user document as saveUserToDB wrote it: the avatar of the initials as
\* imageUrl, no imageId.
AvatarUrl == [fileId |-> NoId, width |-> 0, height |-> 0, gravity |-> "initials", quality |-> 0]
UserDocIds == {1}
\* The user as registered; nothing fetched, useState(false).
UsersIdle ==
    /\ userDocs = [u \in UserDocIds |-> [imageId |-> NoId, imageUrl |-> AvatarUrl]]
    /\ currentUser = [u \in Savers |-> {}]
    /\ isSaved = [k \in Savers \X SavedPostIds |-> FALSE]

\* The variables of the listing, like, tag and user models.
viewVars == <<likeVars, pageVars, tagVars, userVars>>

vars == <<files, posts, nextFile, nextPost, call, variant,
          saves, follows, nextSave, nextFollow, ecall,
          postLikes, likes, lcall,
          feed, pages, pageParam, hasNextPage, pageError,
          tags, tagList, parsed, userDocs, currentUser, isSaved>>

\* Nothing listed, liked or parsed, the user as registered.
ViewsIdle == LikesIdle /\ PagesIdle /\ TagsIdle /\ UsersIdle


IdleCall ==
    [op |-> "idle", pc |-> "idle", postId |-> NoId, hasFile |-> FALSE,
     imageId |-> NoId, imageUrl |-> NoUrl,
     upId |-> NoId, image |-> [imageId |-> NoId, imageUrl |-> NoUrl],
     result |-> "none", fail |-> "none", err |-> "none", warned |-> FALSE,
     ret |-> NoId, log |-> <<>>]

\* One store request issued by a call, with how it settled.
LogEntry(o, i, r) == [op |-> o, id |-> i, res |-> r]
Logged(cl, o, i, r) == [cl EXCEPT !.log = Append(@, LogEntry(o, i, r))]

\* The call rejects with error e; primary is the step whose failure began the exit.
Throw(cl, primary, e) ==
    [cl EXCEPT !.pc = "done", !.result = "error", !.fail = primary, !.err = e]
\* The call resolves with document d (or a status object when d = NoId).
Resolve(cl, d) == [cl EXCEPT !.pc = "done", !.result = "ok", !.ret = d]
\* The call logs the error of step primary and resolves to undefined.
Swallow(cl, primary) ==
    [cl EXCEPT !.pc = "done", !.result = "undefined", !.fail = primary, !.warned = TRUE]

----------------------------------------------------------------------------
\* storage.getFilePreview(storageId, fileId, 2000, 2000, "top", 100).href,
\* or null when the SDK returns nothing or throws.
getFilePreview(fileId, built) ==
    IF built
    THEN [fileId |-> fileId, width |-> 2000, height |-> 2000, gravity |-> "top", quality |-> 100]
    ELSE NoUrl

\* storage.createFile: an accepted upload adds the file to the bucket.
StorageCreateFile(fs, id, r) == IF r = "ok" THEN fs \cup {id} ELSE fs

\* storage.deleteFile: a resolved delete removes the file from the bucket.
StorageDeleteFile(fs, id, r) == IF r = "ok" THEN fs \ {id} ELSE fs

\* uploadFile(file) as its caller sees it: version 1 rethrows a rejected
\* storage.createFile, version 2 logs it and resolves to undefined.
uploadFile(v, r) == IF v = 2 /\ r = "reject" THEN "null" ELSE r

\* deleteFile(fileId): resolves {status: "ok"}; on a storage error version 1
\* rethrows it, version 2 logs it and resolves to undefined.
deleteFileThrows(v, r) == v = 1 /\ r # "ok"

\* No file, no post document and no post call.
PostsIdle ==
    /\ files = {}
    /\ posts = [p \in PostIds |-> NoDoc]
    /\ nextFile = 1
    /\ nextPost = 1
    /\ call = [c \in 1..NumCallers |-> IdleCall]

Init ==
    /\ files = {}
    /\ posts = [p \in PostIds |-> NoDoc]
    /\ nextFile = 1
    /\ nextPost = 1
    /\ call = [c \in 1..NumCallers |-> IdleCall]
    /\ variant = 1
    /\ ViewsIdle
    /\ EdgesIdle

\* The same stores with NumRacingCallers callers.
InitRace ==
    /\ files = {}
    /\ posts = [p \in PostIds |-> NoDoc]
    /\ nextFile = 1
    /\ nextPost = 1
    /\ call = [c \in 1..NumRacingCallers |-> IdleCall]
    /\ variant = 1
    /\ ViewsIdle
    /\ EdgesIdle

\* Either version of the API module, NumCallers callers.
InitBoth ==
    /\ files = {}
    /\ posts = [p \in PostIds |-> NoDoc]
    /\ nextFile = 1
    /\ nextPost = 1
    /\ call = [c \in 1..NumCallers |-> IdleCall]
    /\ variant \in {1, 2}
    /\ ViewsIdle
    /\ EdgesIdle

----------------------------------------------------------------------------
\* createPost

StartCreatePost(c) ==
    /\ c \in DOMAIN call
    /\ call[c].op = "idle"
    /\ call' = [call EXCEPT ![c] =
                  [IdleCall EXCEPT !.op = "createPost", !.pc = "upload", !.hasFile = TRUE]]
    /\ UNCHANGED <<files, posts, nextFile, nextPost, variant, edgeVars, viewVars>>

\* A faulty variant: after the cleanup of a null preview nothing is thrown and
\* the document is created with the id of the file just deleted.
createPostCatch_ContinueAfterPreview(v, cl, primary, e) ==
    IF primary = "preview"
    THEN [cl EXCEPT !.pc = "persist", !.fail = "none",
                    !.image = [imageId |-> cl.upId, imageUrl |-> NoUrl]]
    ELSE Throw(cl, primary, e)

\* catch (error) of createPost: version 1 rethrows, version 2 only logs.
createPostCatch(v, cl, primary, e) ==
    IF v = 1 THEN Throw(cl, primary, e) ELSE Swallow(cl, primary)

\* A faulty variant: a null preview throws without deleting the uploaded file.
createPostAfterUpload_NoCleanup(v, cl, r, id, built) ==
    IF uploadFile(v, r) # "ok"
    THEN createPostCatch(v, Logged(cl, "createFile", NoId, r), "upload", "upload")
    ELSE LET up  == [Logged(cl, "createFile", id, r) EXCEPT !.upId = id]
             url == getFilePreview(id, built)
         IN  IF url = NoUrl
             THEN createPostCatch(v, up, "preview", "preview")
             ELSE [up EXCEPT !.pc = "persist",
                             !.image = [imageId |-> id, imageUrl |-> url]]

\* A faulty variant: the result of uploadFile is not tested and the call goes
\* on to create the document.
createPostAfterUpload_Unchecked(v, cl, r, id, built) ==
    IF uploadFile(v, r) # "ok"
    THEN [Logged(cl, "createFile", NoId, r) EXCEPT !.pc = "persist"]
    ELSE LET up  == [Logged(cl, "createFile", id, r) EXCEPT !.upId = id]
             url == getFilePreview(id, built)
         IN  IF url = NoUrl
             THEN [up EXCEPT !.pc = "previewCleanup", !.fail = "preview"]
             ELSE [up EXCEPT !.pc = "persist",
                             !.image = [imageId |-> id, imageUrl |-> url]]

\* The call after uploadFile settled with r (file id when stored) and
\* getFilePreview was evaluated on the new id.
createPostAfterUpload(v, cl, r, id, built) ==
    IF uploadFile(v, r) # "ok"
    THEN createPostCatch(v, Logged(cl, "createFile", NoId, r), "upload", "upload")
    ELSE LET up  == [Logged(cl, "createFile", id, r) EXCEPT !.upId = id]
             url == getFilePreview(id, built)
         IN  IF url = NoUrl
             THEN [up EXCEPT !.pc = "previewCleanup", !.fail = "preview"]
             ELSE [up EXCEPT !.pc = "persist",
                             !.image = [imageId |-> id, imageUrl |-> url]]

\* await uploadFile(post.file[0]); getFilePreview(uploadedFile.$id)
CreatePostUpload(c, r, built) ==
    /\ c \in DOMAIN call
    /\ call[c].op = "createPost"
    /\ call[c].pc = "upload"
    /\ r = "ok" => nextFile <= MaxFiles
    /\ files' = StorageCreateFile(files, nextFile, r)
    /\ nextFile' = IF r = "ok" THEN nextFile + 1 ELSE nextFile
    /\ call' = [call EXCEPT ![c] = createPostAfterUpload(variant, @, r, nextFile, built)]
    /\ UNCHANGED <<posts, nextPost, variant, edgeVars, viewVars>>

\* The error leaving `await deleteFile(id); throw ...` after step `primary`
\* failed: a delete that throws propagates in place of the throw after it.
CompensationError(v, r, primary) ==
    IF deleteFileThrows(v, r) THEN "deleteFile" ELSE primary

\* if (!fileUrl) { await deleteFile(uploadedFile.$id); throw ... }
CreatePostPreviewCleanup(c, r) ==
    /\ c \in DOMAIN call
    /\ call[c].op = "createPost"
    /\ call[c].pc = "previewCleanup"
    /\ files' = StorageDeleteFile(files, call[c].upId, r)
    /\ call' = [call EXCEPT ![c] =
                  createPostCatch(variant, Logged(@, "deleteFile", @.upId, r), "preview",
                                  CompensationError(variant, r, "preview"))]
    /\ UNCHANGED <<posts, nextFile, nextPost, variant, edgeVars, viewVars>>

\* A faulty variant: a rejected createDocument is issued again.
createPostAfterPersist_Retry(v, cl, r, id) ==
    CASE r = "ok"     -> Resolve(Logged(cl, "createDocument", id, r), id)
      [] r = "reject" -> [Logged(cl, "createDocument", NoId, r) EXCEPT !.fail = "persist"]
      [] r = "null"   -> [Logged(cl, "createDocument", NoId, r) EXCEPT
                              !.pc = "persistCleanup", !.fail = "persist"]

\* The call after databases.createDocument settled with r.
createPostAfterPersist(v, cl, r, id) ==
    CASE r = "ok"     -> Resolve(Logged(cl, "createDocument", id, r), id)
      [] r = "reject" -> createPostCatch(v, Logged(cl, "createDocument", NoId, r),
                                         "persist", "persist")
      [] r = "null"   -> [Logged(cl, "createDocument", NoId, r) EXCEPT
                              !.pc = "persistCleanup", !.fail = "persist"]

\* databases.createDocument: a resolved create stores the document.
DbCreateDocument(ps, id, doc, r) == IF r = "ok" THEN [ps EXCEPT ![id] = doc] ELSE ps

\* const newPost = await databases.createDocument(..., {imageUrl, imageId, ...})
CreatePostPersist(c, r) ==
    /\ c \in DOMAIN call
    /\ call[c].op = "createPost"
    /\ call[c].pc = "persist"
    /\ r = "ok" => nextPost <= MaxPosts
    /\ posts' = DbCreateDocument(posts, nextPost, call[c].image, r)
    /\ nextPost' = IF r = "ok" THEN nextPost + 1 ELSE nextPost
    /\ call' = [call EXCEPT ![c] = createPostAfterPersist(variant, @, r, nextPost)]
    /\ UNCHANGED <<files, nextFile, variant, edgeVars, viewVars>>

\* if (!newPost) { await deleteFile(uploadedFile.$id); throw ... }
CreatePostPersistCleanup(c, r) ==
    /\ c \in DOMAIN call
    /\ call[c].op = "createPost"
    /\ call[c].pc = "persistCleanup"
    /\ files' = StorageDeleteFile(files, call[c].upId, r)
    /\ call' = [call EXCEPT ![c] =
                  createPostCatch(variant, Logged(@, "deleteFile", @.upId, r), "persist",
                                  CompensationError(variant, r, "persist"))]
    /\ UNCHANGED <<posts, nextFile, nextPost, variant, edgeVars, viewVars>>

----------------------------------------------------------------------------
\* updatePost

\* post.imageId || "" and post.imageUrl || "" of the caller's argument; a
\* caller passes what it last read from the document, or omits the fields.
StartUpdatePost(c, p, hasFile, pass) ==
    /\ c \in DOMAIN call
    /\ call[c].op = "idle"
    /\ posts[p] # NoDoc
    /\ LET id  == IF pass THEN posts[p].imageId ELSE NoId
           url == IF pass THEN posts[p].imageUrl ELSE NoUrl
       IN  call' = [call EXCEPT ![c] =
                      [IdleCall EXCEPT !.op = "updatePost", !.postId = p,
                                       !.hasFile = hasFile,
                                       !.imageId = id, !.imageUrl = url,
                                       !.image = [imageId |-> id, imageUrl |-> url],
                                       !.pc = IF hasFile THEN "upload" ELSE "persist"]]
    /\ UNCHANGED <<files, posts, nextFile, nextPost, variant, edgeVars, viewVars>>

\* A faulty variant: the preview-failure branch deletes the post's current file.
updatePostPreviewCleanupTarget_Current(cl) == cl.imageId

\* The file the preview-failure branch of updatePost deletes.
updatePostPreviewCleanupTarget(cl) == cl.upId

updatePostAfterUpload(v, cl, r, id, built) ==
    IF uploadFile(v, r) # "ok"
    THEN Throw(Logged(cl, "createFile", NoId, r), "upload", "upload")
    ELSE LET up  == [Logged(cl, "createFile", id, r) EXCEPT !.upId = id]
             url == getFilePreview(id, built)
         IN  IF url = NoUrl
             THEN [up EXCEPT !.pc = "previewCleanup", !.fail = "preview"]
             ELSE [up EXCEPT !.pc = "persist",
                             !.image = [imageId |-> id, imageUrl |-> url]]

\* if (hasFileToUpdate) { await uploadFile(...); getFilePreview(...) }
UpdatePostUpload(c, r, built) ==
    /\ c \in DOMAIN call
    /\ call[c].op = "updatePost"
    /\ call[c].pc = "upload"
    /\ r = "ok" => nextFile <= MaxFiles
    /\ files' = StorageCreateFile(files, nextFile, r)
    /\ nextFile' = IF r = "ok" THEN nextFile + 1 ELSE nextFile
    /\ call' = [call EXCEPT ![c] = updatePostAfterUpload(variant, @, r, nextFile, built)]
    /\ UNCHANGED <<posts, nextPost, variant, edgeVars, viewVars>>

\* if (!fileUrl) { await deleteFile(uploadedFile.$id); throw ... }
UpdatePostPreviewCleanup(c, r) ==
    /\ c \in DOMAIN call
    /\ call[c].op = "updatePost"
    /\ call[c].pc = "previewCleanup"
    /\ LET id == updatePostPreviewCleanupTarget(call[c])
       IN  /\ files' = StorageDeleteFile(files, id, r)
           /\ call' = [call EXCEPT ![c] =
                         Throw(Logged(@, "deleteFile", id, r), "preview",
                               CompensationError(variant, r, "preview"))]
    /\ UNCHANGED <<posts, nextFile, nextPost, variant, edgeVars, viewVars>>

\* The new file is removed after a falsy update when
\* hasFileToUpdate && image.imageId (version 1), hasFileToUpdate (version 2).
ShouldDeleteNewFile(v, hasFile, newId) ==
    IF v = 1 THEN hasFile /\ newId # NoId ELSE hasFile

\* A faulty variant: the old file is deleted whenever the post has one.
ShouldDeleteOldFile_Always(v, hasFile, oldId, newId) == oldId # NoId

\* hasFileToUpdate && post.imageId && post.imageId !== image.imageId (version 1),
\* post.imageId && hasFileToUpdate (version 2)
ShouldDeleteOldFile(v, hasFile, oldId, newId) ==
    IF v = 1
    THEN hasFile /\ oldId # NoId /\ oldId # newId
    ELSE oldId # NoId /\ hasFile

\* A faulty variant: the old file is deleted also after a rejected update.
updatePostAfterPersist_DeleteOldAnyway(v, cl, r) ==
    LET lg == Logged(cl, "updateDocument", cl.postId, r)
    IN  CASE r = "ok" ->
               IF ShouldDeleteOldFile(v, cl.hasFile, cl.imageId, cl.image.imageId)
               THEN [lg EXCEPT !.pc = "oldCleanup", !.ret = cl.postId]
               ELSE Resolve(lg, cl.postId)
          [] r = "reject" ->
               IF ShouldDeleteOldFile(v, cl.hasFile, cl.imageId, cl.image.imageId)
               THEN [lg EXCEPT !.pc = "oldCleanup", !.fail = "persist"]
               ELSE Throw(lg, "persist", "persist")
          [] r = "null" ->
               IF ShouldDeleteNewFile(v, cl.hasFile, cl.image.imageId)
               THEN [lg EXCEPT !.pc = "persistCleanup", !.fail = "persist"]
               ELSE Throw(lg, "persist", "persist")

\* The call after databases.updateDocument settled with r.
updatePostAfterPersist(v, cl, r) ==
    LET lg == Logged(cl, "updateDocument", cl.postId, r)
    IN  CASE r = "ok" ->
               IF ShouldDeleteOldFile(v, cl.hasFile, cl.imageId, cl.image.imageId)
               THEN [lg EXCEPT !.pc = "oldCleanup", !.ret = cl.postId]
               ELSE Resolve(lg, cl.postId)
          [] r = "reject" -> Throw(lg, "persist", "persist")
          [] r = "null" ->
               IF ShouldDeleteNewFile(v, cl.hasFile, cl.image.imageId)
               THEN [lg EXCEPT !.pc = "persistCleanup", !.fail = "persist"]
               ELSE Throw(lg, "persist", "persist")

\* databases.updateDocument: a resolved update replaces the stored fields.
DbUpdateDocument(ps, id, doc, r) == IF r = "ok" THEN [ps EXCEPT ![id] = doc] ELSE ps

\* const updatedPost = await databases.updateDocument(..., post.postId, {...})
\* An update of a document that is not in the collection rejects.
UpdatePostPersist(c, r) ==
    /\ c \in DOMAIN call
    /\ call[c].op = "updatePost"
    /\ call[c].pc = "persist"
    /\ posts[call[c].postId] = NoDoc => r = "reject"
    /\ posts' = DbUpdateDocument(posts, call[c].postId, call[c].image, r)
    /\ call' = [call EXCEPT ![c] = updatePostAfterPersist(variant, @, r)]
    /\ UNCHANGED <<files, nextFile, nextPost, variant, edgeVars, viewVars>>

\* if (!updatedPost) { if (...) await deleteFile(image.imageId); throw ... }
UpdatePostPersistCleanup(c, r) ==
    /\ c \in DOMAIN call
    /\ call[c].op = "updatePost"
    /\ call[c].pc = "persistCleanup"
    /\ files' = StorageDeleteFile(files, call[c].image.imageId, r)
    /\ call' = [call EXCEPT ![c] =
                  Throw(Logged(@, "deleteFile", @.image.imageId, r), "persist",
                        CompensationError(variant, r, "persist"))]
    /\ UNCHANGED <<posts, nextFile, nextPost, variant, edgeVars, viewVars>>

\* A faulty variant: the old-file delete is awaited outside any try/catch.
updatePostAfterOldCleanup_Unguarded(v, cl, r) ==
    IF r # "ok"
    THEN Throw(Logged(cl, "deleteFile", cl.imageId, r), "none", "deleteFile")
    ELSE Resolve(Logged(cl, "deleteFile", cl.imageId, r), cl.postId)

\* Version 1: try { await deleteFile(post.imageId) } catch { console.warn(...) }.
\* Version 2: await deleteFile(post.imageId), which logs and never throws.
\* Then return updatedPost.
updatePostAfterOldCleanup(v, cl, r) ==
    IF v = 2 /\ deleteFileThrows(v, r)
    THEN Throw(Logged(cl, "deleteFile", cl.imageId, r), "none", "deleteFile")
    ELSE Resolve([Logged(cl, "deleteFile", cl.imageId, r) EXCEPT
                      !.warned = (r # "ok")], cl.postId)

UpdatePostOldCleanup(c, r) ==
    /\ c \in DOMAIN call
    /\ call[c].op = "updatePost"
    /\ call[c].pc = "oldCleanup"
    /\ files' = StorageDeleteFile(files, call[c].imageId, r)
    /\ call' = [call EXCEPT ![c] = updatePostAfterOldCleanup(variant, @, r)]
    /\ UNCHANGED <<posts, nextFile, nextPost, variant, edgeVars, viewVars>>

----------------------------------------------------------------------------
\* deletePost

\* if (!postId) throw new Error("Post ID is required to delete")
DeletePostNoId(c) ==
    /\ c \in DOMAIN call
    /\ call[c].op = "idle"
    /\ call' = [call EXCEPT ![c] =
                  Throw([IdleCall EXCEPT !.op = "deletePost"], "validation", "validation")]
    /\ UNCHANGED <<files, posts, nextFile, nextPost, variant, edgeVars, viewVars>>

\* deletePost(postId, imageId) with the imageId the caller last read, or none.
StartDeletePost(c, p, pass) ==
    /\ c \in DOMAIN call
    /\ call[c].op = "idle"
    /\ posts[p] # NoDoc
    /\ call' = [call EXCEPT ![c] =
                  [IdleCall EXCEPT !.op = "deletePost", !.postId = p,
                                   !.imageId = IF pass THEN posts[p].imageId ELSE NoId,
                                   !.pc = "deleteDocument"]]
    /\ UNCHANGED <<files, posts, nextFile, nextPost, variant, edgeVars, viewVars>>

\* A faulty variant: the document error is swallowed and the asset is deleted anyway.
deletePostAfterDocumentFailure_Continue(cl) ==
    IF cl.imageId # NoId
    THEN [cl EXCEPT !.pc = "assetCleanup"]
    ELSE Resolve(cl, NoId)

\* The call after a rejected databases.deleteDocument: the catch block rethrows.
deletePostAfterDocumentFailure(cl) == Throw(cl, "deleteDocument", "deleteDocument")

\* The call after databases.deleteDocument settled with r.
deletePostAfterDocument(cl, r) ==
    LET lg == Logged(cl, "deleteDocument", cl.postId, r)
    IN  IF r = "ok"
        THEN IF cl.imageId # NoId
             THEN [lg EXCEPT !.pc = "assetCleanup"]
             ELSE Resolve(lg, NoId)
        ELSE deletePostAfterDocumentFailure(lg)

\* databases.deleteDocument: a resolved delete removes the document.
DbDeleteDocument(ps, id, r) == IF r = "ok" THEN [ps EXCEPT ![id] = NoDoc] ELSE ps

\* await databases.deleteDocument(..., postId)
DeletePostDocument(c, r) ==
    /\ c \in DOMAIN call
    /\ call[c].op = "deletePost"
    /\ call[c].pc = "deleteDocument"
    /\ posts' = DbDeleteDocument(posts, call[c].postId, r)
    /\ call' = [call EXCEPT ![c] = deletePostAfterDocument(@, r)]
    /\ UNCHANGED <<files, nextFile, nextPost, variant, edgeVars, viewVars>>

\* A faulty variant: a failed asset delete is rethrown to the caller.
deletePostAfterAssetCleanup_Rethrow(cl, r) ==
    IF r = "ok"
    THEN Resolve(Logged(cl, "deleteFile", cl.imageId, r), NoId)
    ELSE Throw(Logged(cl, "deleteFile", cl.imageId, r), "deleteFile", "deleteFile")

\* if (imageId) { try { await deleteFile(imageId) } catch {} }; return {status: "Ok"}
deletePostAfterAssetCleanup(cl, r) ==
    Resolve([Logged(cl, "deleteFile", cl.imageId, r) EXCEPT
                 !.warned = (r # "ok")], NoId)

DeletePostAssetCleanup(c, r) ==
    /\ c \in DOMAIN call
    /\ call[c].op = "deletePost"
    /\ call[c].pc = "assetCleanup"
    /\ files' = StorageDeleteFile(files, call[c].imageId, r)
    /\ call' = [call EXCEPT ![c] = deletePostAfterAssetCleanup(@, r)]
    /\ UNCHANGED <<posts, nextFile, nextPost, variant, edgeVars, viewVars>>

----------------------------------------------------------------------------
\* The caller has observed the settled promise and is free to call again.
Return(c) ==
    /\ c \in DOMAIN call
    /\ call[c].pc = "done"
    /\ call' = [call EXCEPT ![c] = IdleCall]
    /\ UNCHANGED <<files, posts, nextFile, nextPost, variant, edgeVars, viewVars>>

\* storage.deleteFile and databases.deleteDocument resolve to void.
VoidOutcomes == {"ok", "reject"}

\* Caller ids; a specification's Init chooses how many of them exist.
Callers == 1..NumRacingCallers

Next ==
    \E c \in Callers :
        \/ StartCreatePost(c)
        \/ \E r \in Outcomes, built \in BOOLEAN : CreatePostUpload(c, r, built)
        \/ \E r \in VoidOutcomes : CreatePostPreviewCleanup(c, r)
        \/ \E r \in Outcomes : CreatePostPersist(c, r)
        \/ \E r \in VoidOutcomes : CreatePostPersistCleanup(c, r)
        \/ \E p \in PostIds, hasFile \in BOOLEAN, pass \in BOOLEAN :
               StartUpdatePost(c, p, hasFile, pass)
        \/ \E r \in Outcomes, built \in BOOLEAN : UpdatePostUpload(c, r, built)
        \/ \E r \in VoidOutcomes : UpdatePostPreviewCleanup(c, r)
        \/ \E r \in Outcomes : UpdatePostPersist(c, r)
        \/ \E r \in VoidOutcomes : UpdatePostPersistCleanup(c, r)
        \/ \E r \in VoidOutcomes : UpdatePostOldCleanup(c, r)
        \/ DeletePostNoId(c)
        \/ \E p \in PostIds, pass \in BOOLEAN : StartDeletePost(c, p, pass)
        \/ \E r \in VoidOutcomes : DeletePostDocument(c, r)
        \/ \E r \in VoidOutcomes : DeletePostAssetCleanup(c, r)
        \/ Return(c)

Spec == Init /\ [][Next]_vars

SpecRace == InitRace /\ [][Next]_vars

SpecBoth == InitBoth /\ [][Next]_vars

----------------------------------------------------------------------------
\* Relationship documents: the saves collection

\* Ids of the callers issuing relationship calls.
EdgeCallers == 1..NumEdgeCallers

\* databases.listDocuments resolves with the matching documents or rejects.
QueryOutcomes == {"ok", "reject"}

\* databases.deleteDocument on a document id: the store deletes a document
\* that is in the collection, and answers an id that is not in it with a
\* not-found error; either way the request can fail in transit.
DeleteOutcomes(present) ==
    IF present THEN {"ok", "reject"} ELSE {"notfound", "reject"}

\* listDocuments(saves, [Query.equal('user', u), Query.equal('post', p)])
SavesOf(ss, u, p) == {d \in ss : d.user = u /\ d.post = p}

\* documents[0] of a non-empty result: the oldest matching document.
FirstDocument(ds) == CHOOSE d \in ds : \A e \in ds : d.id <= e.id

\* catch (error) of savePost: version 1 rethrows, version 2 only logs.
savePostCatch(v, cl, primary, e) ==
    IF v = 1 THEN Throw(cl, primary, e) ELSE Swallow(cl, primary)

\* savePost(userId, postId): version 1 queries for an existing save first,
\* version 2 creates at once.
savePostEntry(v) == IF v = 1 THEN "query" ELSE "create"

StartSavePost(c, u, p) ==
    /\ c \in DOMAIN ecall
    /\ ecall[c].op = "idle"
    /\ ecall' = [ecall EXCEPT ![c] =
                   [IdleEdgeCall EXCEPT !.op = "savePost", !.a = u, !.b = p,
                                        !.pc = savePostEntry(variant)]]
    /\ UNCHANGED <<saves, follows, nextSave, nextFollow, variant, postVars, viewVars>>

\* The call after the existence query settled with r on collection ss.
savePostAfterQuery(v, cl, ss, r) ==
    LET lg    == Logged(cl, "listDocuments", NoId, r)
        found == SavesOf(ss, cl.a, cl.b)
    IN  IF r # "ok"
        THEN savePostCatch(v, lg, "query", "query")
        ELSE IF found # {}
             THEN Resolve([lg EXCEPT !.warned = TRUE, !.target = FirstDocument(found).id],
                          FirstDocument(found).id)
             ELSE [lg EXCEPT !.pc = "create"]

\* const existingSaves = await databases.listDocuments(...); if (total > 0) return
SavePostQuery(c, r) ==
    /\ c \in DOMAIN ecall
    /\ ecall[c].op = "savePost"
    /\ ecall[c].pc = "query"
    /\ ecall' = [ecall EXCEPT ![c] = savePostAfterQuery(variant, @, saves, r)]
    /\ UNCHANGED <<saves, follows, nextSave, nextFollow, variant, postVars, viewVars>>

\* The call after databases.createDocument settled with r.
savePostAfterCreate(v, cl, r, id) ==
    IF r = "ok"
    THEN Resolve(Logged(cl, "createDocument", id, r), id)
    ELSE savePostCatch(v, Logged(cl, "createDocument", NoId, r), "create", "create")

\* A faulty variant: the collection refuses a second document for a pair.
DbCreateSave_Unique(ss, id, u, p, r) ==
    IF r = "ok" /\ SavesOf(ss, u, p) = {}
    THEN ss \cup {[id |-> id, user |-> u, post |-> p]}
    ELSE ss

\* databases.createDocument(saves, ID.unique(), {user, post}): a resolved
\* create stores the document, whatever the collection already holds.
DbCreateSave(ss, id, u, p, r) ==
    IF r = "ok" THEN ss \cup {[id |-> id, user |-> u, post |-> p]} ELSE ss

\* const newSave = await databases.createDocument(...); if (!newSave) throw
SavePostCreate(c, r) ==
    /\ c \in DOMAIN ecall
    /\ ecall[c].op = "savePost"
    /\ ecall[c].pc = "create"
    /\ r = "ok" => nextSave <= MaxSaves
    /\ saves' = DbCreateSave(saves, nextSave, ecall[c].a, ecall[c].b, r)
    /\ nextSave' = IF r = "ok" THEN nextSave + 1 ELSE nextSave
    /\ ecall' = [ecall EXCEPT ![c] = savePostAfterCreate(variant, @, r, nextSave)]
    /\ UNCHANGED <<follows, nextFollow, variant, postVars, viewVars>>

\* deleteSavedPost(savedRecordId) with the id of a save document the caller
\* once read: the document may have been deleted since.
StartDeleteSavedPost(c, id) ==
    /\ c \in DOMAIN ecall
    /\ ecall[c].op = "idle"
    /\ id \in 1..(nextSave - 1)
    /\ ecall' = [ecall EXCEPT ![c] =
                   [IdleEdgeCall EXCEPT !.op = "deleteSavedPost", !.target = id,
                                        !.pc = "delete"]]
    /\ UNCHANGED <<saves, follows, nextSave, nextFollow, variant, postVars, viewVars>>

\* savedPostRecord = currentUser.save.find(record => record.post.$id === post.$id)
savedPostRecord(ss, u, p) ==
    IF SavesOf(ss, u, p) = {} THEN NoId ELSE FirstDocument(SavesOf(ss, u, p)).id

\* The call handleSavePost issues for user u on post p: deleteSavedPost of
\* the record found, or savePost when there is none.
handleSavePost(v, ss, u, p) ==
    IF savedPostRecord(ss, u, p) # NoId
    THEN [IdleEdgeCall EXCEPT !.op = "deleteSavedPost", !.a = u, !.b = p,
                              !.target = savedPostRecord(ss, u, p), !.pc = "delete"]
    ELSE [IdleEdgeCall EXCEPT !.op = "savePost", !.a = u, !.b = p,
                              !.pc = savePostEntry(v)]

\* The save button of PostStats: the branch is taken on savedPostRecord, which
\* is computed from the current-user data last fetched; setIsSaved(false)
\* goes with the delete, setIsSaved(true) with the save.
HandleSavePost(c, u, p) ==
    /\ c \in DOMAIN ecall
    /\ ecall[c].op = "idle"
    /\ ecall' = [ecall EXCEPT ![c] = handleSavePost(variant, currentUser[u], u, p)]
    /\ isSaved' = [isSaved EXCEPT ![<<u, p>>] = (savedPostRecord(currentUser[u], u, p) = NoId)]
    /\ UNCHANGED <<saves, follows, nextSave, nextFollow, variant, postVars,
                   likeVars, pageVars, tagVars, userDocs, currentUser>>

\* useEffect(() => setIsSaved(!!savedPostRecord), [savedPostRecord]): the
\* effect runs when the record found has changed.
isSavedAfterFetch(was, before, after, u, p) ==
    IF savedPostRecord(after, u, p) # savedPostRecord(before, u, p)
    THEN savedPostRecord(after, u, p) # NoId
    ELSE was

\* useGetCurrentUser fetches the user again: getCurrentUser returns the user
\* document with its save records, or null when a request fails.
GetCurrentUser(u, r) ==
    /\ LET data == IF r = "ok" THEN {d \in saves : d.user = u} ELSE {}
       IN  /\ currentUser' = [currentUser EXCEPT ![u] = data]
           /\ isSaved' = [k \in DOMAIN isSaved |->
                            IF k[1] = u
                            THEN isSavedAfterFetch(isSaved[k], currentUser[u], data, u, k[2])
                            ELSE isSaved[k]]
    /\ UNCHANGED <<edgeVars, variant, postVars, likeVars, pageVars, tagVars, userDocs>>

\* catch (error) of deleteSavedPost: version 1 rethrows, version 2 only logs.
deleteSavedPostCatch(v, cl, primary, e) ==
    IF v = 1 THEN Throw(cl, primary, e) ELSE Swallow(cl, primary)

\* The call after databases.deleteDocument settled with r.
deleteSavedPostAfterDelete(v, cl, r) ==
    IF r = "ok"
    THEN Resolve(Logged(cl, "deleteDocument", cl.target, r), NoId)
    ELSE deleteSavedPostCatch(v, Logged(cl, "deleteDocument", cl.target, r), "delete", r)

\* databases.deleteDocument(saves, id): a resolved delete removes the document.
DbDeleteSave(ss, id, r) == IF r = "ok" THEN {d \in ss : d.id # id} ELSE ss

\* await databases.deleteDocument(..., savedRecordId); return {status: "Ok"}
DeleteSavedPostDocument(c, r) ==
    /\ c \in DOMAIN ecall
    /\ ecall[c].op = "deleteSavedPost"
    /\ ecall[c].pc = "delete"
    /\ r \in DeleteOutcomes(\E d \in saves : d.id = ecall[c].target)
    /\ saves' = DbDeleteSave(saves, ecall[c].target, r)
    /\ ecall' = [ecall EXCEPT ![c] = deleteSavedPostAfterDelete(variant, @, r)]
    /\ UNCHANGED <<follows, nextSave, nextFollow, variant, postVars, viewVars>>

\* The caller has observed the settled promise of a relationship call.
ReturnEdge(c) ==
    /\ c \in DOMAIN ecall
    /\ ecall[c].pc = "done"
    /\ ecall' = [ecall EXCEPT ![c] = IdleEdgeCall]
    /\ UNCHANGED <<saves, follows, nextSave, nextFollow, variant, postVars, viewVars>>

\* Version 1 of the API module, no call in progress.
InitEdges ==
    /\ PostsIdle
    /\ EdgesIdle
    /\ variant = 1
    /\ ViewsIdle

\* Either version, with NumCallers callers: with one caller no two
\* relationship calls overlap.
InitEdgesSeq ==
    /\ PostsIdle
    /\ saves = {}
    /\ follows = {}
    /\ nextSave = 1
    /\ nextFollow = 1
    /\ ecall = [c \in 1..NumCallers |-> IdleEdgeCall]
    /\ variant \in {1, 2}
    /\ ViewsIdle

\* The calls of the API module on the saves collection.
NextSave ==
    \E c \in EdgeCallers :
        \/ \E u \in Savers, p \in SavedPostIds : StartSavePost(c, u, p)
        \/ \E r \in QueryOutcomes : SavePostQuery(c, r)
        \/ \E r \in Outcomes : SavePostCreate(c, r)
        \/ \E id \in 1..MaxSaves : StartDeleteSavedPost(c, id)
        \/ \E r \in {"ok", "reject", "notfound"} : DeleteSavedPostDocument(c, r)
        \/ ReturnEdge(c)

SpecSave == InitEdges /\ [][NextSave]_vars

SpecSaveSeq == InitEdgesSeq /\ [][NextSave]_vars

\* The same calls, and the save button issuing them.
NextSaveUI ==
    \/ NextSave
    \/ \E c \in EdgeCallers, u \in Savers, p \in SavedPostIds : HandleSavePost(c, u, p)
    \/ \E u \in Savers, r \in QueryOutcomes : GetCurrentUser(u, r)

SpecSaveUI == InitEdges /\ [][NextSaveUI]_vars

\* The save button as the only source of savePost and deleteSavedPost calls.
NextSaveButton ==
    \/ \E c \in EdgeCallers :
          \/ \E u \in Savers, p \in SavedPostIds : HandleSavePost(c, u, p)
          \/ \E r \in QueryOutcomes : SavePostQuery(c, r)
          \/ \E r \in Outcomes : SavePostCreate(c, r)
          \/ \E r \in {"ok", "reject", "notfound"} : DeleteSavedPostDocument(c, r)
          \/ ReturnEdge(c)
    \/ \E u \in Savers, r \in QueryOutcomes : GetCurrentUser(u, r)

SpecSaveButton == InitEdges /\ [][NextSaveButton]_vars

----------------------------------------------------------------------------
\* Relationship documents: the followers collection

\* listDocuments(followers, [Query.equal('followerId', f), Query.equal('followingId', g)])
FollowsOf(fs, f, g) == {d \in fs : d.followerId = f /\ d.followingId = g}

\* catch (error) of followUser: version 1 rethrows, version 2 only logs.
followUserCatch(v, cl, primary, e) ==
    IF v = 1 THEN Throw(cl, primary, e) ELSE Swallow(cl, primary)

\* followUser(followerId, followingId): version 1 queries for an existing
\* follow first, version 2 creates at once.
followUserEntry(v) == IF v = 1 THEN "query" ELSE "create"

\* The ids are taken as given: the two may be the same user.
StartFollowUser(c, f, g) ==
    /\ c \in DOMAIN ecall
    /\ ecall[c].op = "idle"
    /\ ecall' = [ecall EXCEPT ![c] =
                   [IdleEdgeCall EXCEPT !.op = "followUser", !.a = f, !.b = g,
                                        !.pc = followUserEntry(variant)]]
    /\ UNCHANGED <<saves, follows, nextSave, nextFollow, variant, postVars, viewVars>>

\* A faulty variant: the result of the existence query is not looked at.
followUserAfterQuery_NoCheck(v, cl, fs, r) ==
    LET lg == Logged(cl, "listDocuments", NoId, r)
    IN  IF r # "ok"
        THEN followUserCatch(v, lg, "query", "query")
        ELSE [lg EXCEPT !.pc = "create"]

\* The call after the existence query settled with r on collection fs.
followUserAfterQuery(v, cl, fs, r) ==
    LET lg    == Logged(cl, "listDocuments", NoId, r)
        found == FollowsOf(fs, cl.a, cl.b)
    IN  IF r # "ok"
        THEN followUserCatch(v, lg, "query", "query")
        ELSE IF found # {}
             THEN Resolve([lg EXCEPT !.warned = TRUE, !.target = FirstDocument(found).id],
                          FirstDocument(found).id)
             ELSE [lg EXCEPT !.pc = "create"]

\* const existingFollow = await databases.listDocuments(...); if (total > 0) return
FollowUserQuery(c, r) ==
    /\ c \in DOMAIN ecall
    /\ ecall[c].op = "followUser"
    /\ ecall[c].pc = "query"
    /\ ecall' = [ecall EXCEPT ![c] = followUserAfterQuery(variant, @, follows, r)]
    /\ UNCHANGED <<saves, follows, nextSave, nextFollow, variant, postVars, viewVars>>

\* The call after databases.createDocument settled with r: version 1 throws
\* on a falsy document, version 2 returns whatever the store resolved with.
followUserAfterCreate(v, cl, r, id) ==
    CASE r = "ok"     -> Resolve(Logged(cl, "createDocument", id, r), id)
      [] r = "reject" -> followUserCatch(v, Logged(cl, "createDocument", NoId, r),
                                         "create", "create")
      [] r = "null"   -> IF v = 1
                         THEN Throw(Logged(cl, "createDocument", NoId, r), "create", "create")
                         ELSE [Logged(cl, "createDocument", NoId, r) EXCEPT
                                   !.pc = "done", !.result = "undefined", !.fail = "create"]

\* databases.createDocument(followers, ID.unique(), {followerId, followingId})
DbCreateFollow(fs, id, f, g, r) ==
    IF r = "ok" THEN fs \cup {[id |-> id, followerId |-> f, followingId |-> g]} ELSE fs

\* const newFollower = await databases.createDocument(...)
FollowUserCreate(c, r) ==
    /\ c \in DOMAIN ecall
    /\ ecall[c].op = "followUser"
    /\ ecall[c].pc = "create"
    /\ r = "ok" => nextFollow <= MaxFollows
    /\ follows' = DbCreateFollow(follows, nextFollow, ecall[c].a, ecall[c].b, r)
    /\ nextFollow' = IF r = "ok" THEN nextFollow + 1 ELSE nextFollow
    /\ ecall' = [ecall EXCEPT ![c] = followUserAfterCreate(variant, @, r, nextFollow)]
    /\ UNCHANGED <<saves, nextSave, variant, postVars, viewVars>>

\* unfollowUser(followerId, followingId); the ids are taken as given.
StartUnfollowUser(c, f, g) ==
    /\ c \in DOMAIN ecall
    /\ ecall[c].op = "idle"
    /\ ecall' = [ecall EXCEPT ![c] =
                   [IdleEdgeCall EXCEPT !.op = "unfollowUser", !.a = f, !.b = g,
                                        !.pc = "query"]]
    /\ UNCHANGED <<saves, follows, nextSave, nextFollow, variant, postVars, viewVars>>

\* catch (error) of unfollowUser: version 1 rethrows, version 2 only logs.
unfollowUserCatch(v, cl, primary, e) ==
    IF v = 1 THEN Throw(cl, primary, e) ELSE Swallow(cl, primary)

\* The end of the try block: version 1 returns {status: "Ok"}, version 2
\* has no return statement.
unfollowUserReturn(v, cl) ==
    IF v = 1 THEN Resolve(cl, NoId) ELSE [cl EXCEPT !.pc = "done", !.result = "undefined"]

\* A faulty variant: no matching follow document is an error.
unfollowUserAfterQuery_ThrowOnNone(v, cl, fs, r) ==
    LET lg    == Logged(cl, "listDocuments", NoId, r)
        found == FollowsOf(fs, cl.a, cl.b)
    IN  IF r # "ok"
        THEN unfollowUserCatch(v, lg, "query", "query")
        ELSE IF found # {}
             THEN [lg EXCEPT !.pc = "delete", !.target = FirstDocument(found).id,
                             !.matched = {d.id : d \in found}]
             ELSE unfollowUserCatch(v, lg, "query", "notfound")

\* The call after the query settled with r on collection fs: the first
\* matching document is the one to delete; none is a warning.
unfollowUserAfterQuery(v, cl, fs, r) ==
    LET lg    == Logged(cl, "listDocuments", NoId, r)
        found == FollowsOf(fs, cl.a, cl.b)
    IN  IF r # "ok"
        THEN unfollowUserCatch(v, lg, "query", "query")
        ELSE IF found # {}
             THEN [lg EXCEPT !.pc = "delete", !.target = FirstDocument(found).id,
                             !.matched = {d.id : d \in found}]
             ELSE unfollowUserReturn(v, [lg EXCEPT !.warned = (v = 1)])

\* const followers = await databases.listDocuments(...); if (followers.total > 0)
UnfollowUserQuery(c, r) ==
    /\ c \in DOMAIN ecall
    /\ ecall[c].op = "unfollowUser"
    /\ ecall[c].pc = "query"
    /\ ecall' = [ecall EXCEPT ![c] = unfollowUserAfterQuery(variant, @, follows, r)]
    /\ UNCHANGED <<saves, follows, nextSave, nextFollow, variant, postVars, viewVars>>

\* The call after databases.deleteDocument settled with r.
unfollowUserAfterDelete(v, cl, r) ==
    IF r = "ok"
    THEN unfollowUserReturn(v, Logged(cl, "deleteDocument", cl.target, r))
    ELSE unfollowUserCatch(v, Logged(cl, "deleteDocument", cl.target, r), "delete", r)

\* databases.deleteDocument(followers, id): a resolved delete removes the document.
DbDeleteFollow(fs, id, r) == IF r = "ok" THEN {d \in fs : d.id # id} ELSE fs

\* await databases.deleteDocument(..., followers.documents[0].$id)
UnfollowUserDelete(c, r) ==
    /\ c \in DOMAIN ecall
    /\ ecall[c].op = "unfollowUser"
    /\ ecall[c].pc = "delete"
    /\ r \in DeleteOutcomes(\E d \in follows : d.id = ecall[c].target)
    /\ follows' = DbDeleteFollow(follows, ecall[c].target, r)
    /\ ecall' = [ecall EXCEPT ![c] = unfollowUserAfterDelete(variant, @, r)]
    /\ UNCHANGED <<saves, nextSave, nextFollow, variant, postVars, viewVars>>

NextFollow ==
    \E c \in EdgeCallers :
        \/ \E f \in Users, g \in Users : StartFollowUser(c, f, g)
        \/ \E r \in QueryOutcomes : FollowUserQuery(c, r)
        \/ \E r \in Outcomes : FollowUserCreate(c, r)
        \/ \E f \in Users, g \in Users : StartUnfollowUser(c, f, g)
        \/ \E r \in QueryOutcomes : UnfollowUserQuery(c, r)
        \/ \E r \in {"ok", "reject", "notfound"} : UnfollowUserDelete(c, r)
        \/ ReturnEdge(c)

SpecFollow == InitEdges /\ [][NextFollow]_vars

\* Version 1 of the API module with NumCallers callers.
InitEdgesOne ==
    /\ PostsIdle
    /\ saves = {}
    /\ follows = {}
    /\ nextSave = 1
    /\ nextFollow = 1
    /\ ecall = [c \in 1..NumCallers |-> IdleEdgeCall]
    /\ variant = 1
    /\ ViewsIdle

\* The users who follow in the runs of SpecFollowPair, and the users they
\* follow: the follower itself and one other user. Follow documents of
\* different pairs never meet in a query.
Followers == 1..NumFollowers
Followed == {1, 2}

\* followUser and unfollowUser on the pairs Followers \X Followed.
NextFollowPair ==
    \E c \in EdgeCallers :
        \/ \E f \in Followers, g \in Followed : StartFollowUser(c, f, g)
        \/ \E r \in QueryOutcomes : FollowUserQuery(c, r)
        \/ \E r \in Outcomes : FollowUserCreate(c, r)
        \/ \E f \in Followers, g \in Followed : StartUnfollowUser(c, f, g)
        \/ \E r \in QueryOutcomes : UnfollowUserQuery(c, r)
        \/ \E r \in {"ok", "reject", "notfound"} : UnfollowUserDelete(c, r)
        \/ ReturnEdge(c)

SpecFollowPair == InitEdgesOne /\ [][NextFollowPair]_vars

----------------------------------------------------------------------------
\* Likes: the like button of PostStats and likePost

\* Ids of the PostStats components.
LikeClients == 1..NumLikeClients

\* The userId prop of component c: the components belong to the users of
\* LikeUsers in turn, so two components can belong to one user.
userId(c) == ((c - 1) % Cardinality(LikeUsers)) + 1

\* The arrays of user ids without repetition.
LikeArrays ==
    UNION {{a \in [1..n -> LikeUsers] : \A i, j \in 1..n : i # j => a[i] # a[j]} :
              n \in 0..Cardinality(LikeUsers)}

\* likeList.includes(userId)
checkIsLiked(likeList, u) == \E i \in 1..Len(likeList) : likeList[i] = u

\* likes.filter((id) => id !== userId)
WithoutUser(ls, u) == SelectSeq(ls, LAMBDA id : id # u)

\* A faulty variant: the user is appended whether or not it is in the array.
updatedLikes_AlwaysAppend(ls, u) == Append(ls, u)

\* updatedLikes = likes.includes(userId) ? likes.filter(...) : [...likes, userId]
updatedLikes(ls, u) ==
    IF checkIsLiked(ls, u) THEN WithoutUser(ls, u) ELSE Append(ls, u)

\* likesList = post.likes.map((user) => user.$id), the initial `likes` state
\* of a component mounted on the post as stored.
likesList(stored) == stored

\* The component is mounted (again) on the post it has just read.
MountPostStats(c) ==
    /\ lcall[c].pc = "idle"
    /\ likes' = [likes EXCEPT ![c] = likesList(postLikes)]
    /\ UNCHANGED <<postLikes, lcall, postVars, variant, edgeVars, pageVars, tagVars, userVars>>

\* handleLikePost: setLikes(updatedLikes); likePost({postId, likesArray: updatedLikes})
HandleLikePost(c) ==
    /\ lcall[c].pc = "idle"
    /\ likes' = [likes EXCEPT ![c] = updatedLikes(@, userId(c))]
    /\ lcall' = [lcall EXCEPT ![c] =
                   [IdleLikeCall EXCEPT !.pc = "update",
                                        !.likesArray = updatedLikes(likes[c], userId(c))]]
    /\ UNCHANGED <<postLikes, postVars, variant, edgeVars, pageVars, tagVars, userVars>>

\* likePost(postId, likesArray) called with an array of the caller's own.
StartLikePost(c, arr) ==
    /\ lcall[c].pc = "idle"
    /\ lcall' = [lcall EXCEPT ![c] =
                   [IdleLikeCall EXCEPT !.pc = "update", !.likesArray = arr]]
    /\ UNCHANGED <<postLikes, likes, postVars, variant, edgeVars, pageVars, tagVars, userVars>>

\* A faulty variant: the array given is appended to the stored likes.
DbUpdateLikes_Append(stored, arr, r) == IF r = "ok" THEN stored \o arr ELSE stored

\* A faulty variant: the users of the array given are added to the stored likes.
DbUpdateLikes_Merge(stored, arr, r) ==
    IF r = "ok"
    THEN stored \o SelectSeq(arr, LAMBDA id : ~checkIsLiked(stored, id))
    ELSE stored

\* databases.updateDocument(posts, postId, {likes: likesArray}): a resolved
\* update replaces the attribute.
DbUpdateLikes(stored, arr, r) == IF r = "ok" THEN arr ELSE stored

\* The call after databases.updateDocument settled with r: the updated post
\* is returned, a falsy result or a rejection is thrown.
likePostAfterUpdate(cl, stored, r) ==
    IF r = "ok"
    THEN [cl EXCEPT !.pc = "done", !.result = "ok", !.ret = stored]
    ELSE [cl EXCEPT !.pc = "done", !.result = "error", !.err = "update"]

\* const updatedPost = await databases.updateDocument(..., {likes: likesArray})
LikePostUpdate(c, r) ==
    /\ lcall[c].pc = "update"
    /\ postLikes' = DbUpdateLikes(postLikes, lcall[c].likesArray, r)
    /\ lcall' = [lcall EXCEPT ![c] = likePostAfterUpdate(@, postLikes', r)]
    /\ UNCHANGED <<likes, postVars, variant, edgeVars, pageVars, tagVars, userVars>>

\* The mutation has settled and the component can issue another.
ReturnLike(c) ==
    /\ lcall[c].pc = "done"
    /\ lcall' = [lcall EXCEPT ![c] = IdleLikeCall]
    /\ UNCHANGED <<postLikes, likes, postVars, variant, edgeVars, pageVars, tagVars, userVars>>

\* Version 1 of the API module, the post as created: no like.
InitLikes ==
    /\ PostsIdle
    /\ EdgesIdle
    /\ variant = 1
    /\ ViewsIdle

NextLikes ==
    \E c \in LikeClients :
        \/ MountPostStats(c)
        \/ HandleLikePost(c)
        \/ \E arr \in LikeArrays : StartLikePost(c, arr)
        \/ \E r \in Outcomes : LikePostUpdate(c, r)
        \/ ReturnLike(c)

SpecLikes == InitLikes /\ [][NextLikes]_vars

\* Two PostStats components on one post, one for each of two users.
LikeRacers == {1, 2}

\* Version 1 of the API module, the post as created, shown by both components.
InitLikesRace ==
    /\ PostsIdle
    /\ EdgesIdle
    /\ variant = 1
    /\ PagesIdle
    /\ TagsIdle
    /\ UsersIdle
    /\ postLikes = <<>>
    /\ likes = [c \in LikeRacers |-> <<>>]
    /\ lcall = [c \in LikeRacers |-> IdleLikeCall]

\* The like buttons of the two components and the likePost calls they issue.
NextLikesRace ==
    \E c \in LikeRacers :
        \/ MountPostStats(c)
        \/ HandleLikePost(c)
        \/ \E r \in Outcomes : LikePostUpdate(c, r)
        \/ ReturnLike(c)

SpecLikesRace == InitLikesRace /\ [][NextLikesRace]_vars

----------------------------------------------------------------------------
\* Listing: getInfinitePosts

\* Query.limit(9)
PageSize == 9

\* Number of posts in the collection listed, and of distinct $updatedAt values.
MaxFeed == 19
MaxStamps == 3

\* The collections listed: n posts, created in the order of their ids, whose
\* $updatedAt values are (id * k) % m, so that posts share a value and the
\* order by $updatedAt differs from the order of creation.
Feeds ==
    UNION {UNION {{[i \in 1..n |-> (i * k) % m] : k \in 1..m} : m \in 1..MaxStamps} :
              n \in 0..MaxFeed}

\* The order the store lists in: Query.orderDesc("$updatedAt") puts the later
\* $updatedAt first, Query.orderAsc the earlier; documents with equal values,
\* and all documents when no order is asked for, are in order of creation.
Precedes(fd, order, i, j) ==
    CASE order = "desc" -> fd[i] > fd[j] \/ (fd[i] = fd[j] /\ i < j)
      [] order = "asc"  -> fd[i] < fd[j] \/ (fd[i] = fd[j] /\ i < j)
      [] OTHER          -> i < j

\* The place of document i in that order.
Place(fd, order, i) == 1 + Cardinality({j \in 1..Len(fd) : Precedes(fd, order, j, i)})

\* The documents of the collection in that order.
Ordered(fd, order) ==
    [p \in 1..Len(fd) |-> CHOOSE i \in 1..Len(fd) : Place(fd, order, i) = p]

\* databases.listDocuments(posts, queries): the documents after the cursor
\* document in the order asked for, at most `limit` of them.
listDocuments(fd, queries) ==
    LET all   == Ordered(fd, queries.order)
        from  == IF queries.cursorAfter = NoId
                 THEN 1
                 ELSE Place(fd, queries.order, queries.cursorAfter) + 1
        upto  == IF from + queries.limit - 1 < Len(fd)
                 THEN from + queries.limit - 1
                 ELSE Len(fd)
    IN  SubSeq(all, from, upto)

\* A faulty variant: the cursor is never added to the queries.
getInfinitePostsQueries_NoCursor(param) ==
    [order |-> "desc", limit |-> PageSize, cursorAfter |-> NoId]

\* A faulty variant: the listing is ordered by $updatedAt ascending.
getInfinitePostsQueries_Ascending(param) ==
    [order |-> "asc", limit |-> PageSize, cursorAfter |-> param]

\* queries = [Query.orderDesc("$updatedAt"), Query.limit(9)], and
\* Query.cursorAfter(pageParam.toString()) when pageParam is truthy.
getInfinitePostsQueries(param) ==
    [order |-> "desc", limit |-> PageSize,
     cursorAfter |-> IF param # NoId THEN param ELSE NoId]

\* The cursor for the page after `page`: the id of its last document, and
\* none when the page is empty.
getNextPageParam(page) == IF page = <<>> THEN NoId ELSE page[Len(page)]

\* getInfinitePosts({pageParam}) for the next page: the page the store
\* returns is kept and the next cursor taken from it; a rejected request is
\* rethrown and nothing is kept.
GetInfinitePosts(r) ==
    /\ hasNextPage
    /\ LET page == listDocuments(feed, getInfinitePostsQueries(pageParam))
       IN  IF r = "ok"
           THEN /\ pages' = Append(pages, page)
                /\ pageParam' = getNextPageParam(page)
                /\ hasNextPage' = (page # <<>>)
                /\ pageError' = FALSE
           ELSE /\ pageError' = TRUE
                /\ UNCHANGED <<pages, pageParam, hasNextPage>>
    /\ UNCHANGED <<feed, postVars, variant, edgeVars, likeVars, tagVars, userVars>>

\* A collection of posts that does not change while it is listed.
InitFeed ==
    /\ PostsIdle
    /\ EdgesIdle
    /\ variant = 1
    /\ LikesIdle
    /\ TagsIdle
    /\ UsersIdle
    /\ feed \in Feeds
    /\ pages = <<>>
    /\ pageParam = NoId
    /\ hasNextPage = TRUE
    /\ pageError = FALSE

NextFeed == \E r \in QueryOutcomes : GetInfinitePosts(r)

SpecFeed == InitFeed /\ [][NextFeed]_vars

----------------------------------------------------------------------------
\* Tags: the tags array of createPost and updatePost
\*
\* A string is the sequence of its characters.

MaxTagLen == 3

\* Letters, the comma, the space U+0020 and the tab U+0009.
Space == " "
Tab == "\t"
Comma == ","
Chars == {"a", "b", Comma, Space, Tab}

\* post.tags of a post whose form left the field out.
Undefined == <<"undefined">>

\* The string "a, b ,c".
ExampleTags == <<"a", Comma, Space, "b", Space, Comma, "c">>

\* The values post.tags can have.
TagInputs ==
    UNION {[1..n -> Chars] : n \in 0..MaxTagLen} \cup {ExampleTags, Undefined}

\* str.replace(/ /g, ""): every U+0020 is removed, nothing else.
RECURSIVE replace(_)
replace(str) ==
    IF str = <<>> THEN <<>>
    ELSE IF Head(str) = Space THEN replace(Tail(str))
    ELSE <<Head(str)>> \o replace(Tail(str))

\* str.split(","): the pieces between the commas, empty pieces included; the
\* empty string gives the array of one empty string.
RECURSIVE split(_)
split(str) ==
    IF \A i \in 1..Len(str) : str[i] # Comma THEN <<str>>
    ELSE LET at == CHOOSE i \in 1..Len(str) :
                       str[i] = Comma /\ \A j \in 1..(i - 1) : str[j] # Comma
         IN  <<SubSeq(str, 1, at - 1)>> \o split(SubSeq(str, at + 1, Len(str)))

\* post.tags?.replace(/ /g, "").split(",") || []: undefined tags give [];
\* an array, empty or not, is truthy and is kept.
parseTags(t) ==
    IF t = Undefined THEN <<>> ELSE split(replace(t))

\* createPost and updatePost compute the tags array before they write the
\* document.
ParseTags(op) ==
    /\ parsed = "none"
    /\ tagList' = parseTags(tags)
    /\ parsed' = op
    /\ UNCHANGED <<tags, postVars, variant, edgeVars, likeVars, pageVars, userVars>>

\* The operations that compute a tags array.
TagOps == {"createPost", "updatePost"}

\* Any tags value, before either operation runs.
InitTags ==
    /\ variant = 1
    /\ PostsIdle
    /\ EdgesIdle
    /\ LikesIdle
    /\ PagesIdle
    /\ UsersIdle
    /\ tags \in TagInputs
    /\ tagList = <<>>
    /\ parsed = "none"

NextTags == \E op \in TagOps : ParseTags(op)

SpecTags == InitTags /\ [][NextTags]_vars

----------------------------------------------------------------------------
\* Files: uploadFile and deleteFile called on their own

FileIds == 1..MaxFiles

\* uploadFile(file)
StartUploadFile(c) ==
    /\ c \in DOMAIN call
    /\ call[c].op = "idle"
    /\ call' = [call EXCEPT ![c] = [IdleCall EXCEPT !.op = "uploadFile", !.pc = "create"]]
    /\ UNCHANGED <<files, posts, nextFile, nextPost, variant, edgeVars, viewVars>>

\* The call after storage.createFile settled with r: the file is returned, or
\* the error is rethrown (version 1) or logged (version 2).
uploadFileAfterCreate(v, cl, r, id) ==
    CASE uploadFile(v, r) = "ok"     -> Resolve([Logged(cl, "createFile", id, r) EXCEPT !.upId = id], id)
      [] uploadFile(v, r) = "reject" -> Throw(Logged(cl, "createFile", NoId, r), "upload", "upload")
      [] uploadFile(v, r) = "null"   -> Swallow(Logged(cl, "createFile", NoId, r), "upload")

\* const uploadedFile = await storage.createFile(storageId, ID.unique(), file)
UploadFileCreate(c, r) ==
    /\ c \in DOMAIN call
    /\ call[c].op = "uploadFile"
    /\ call[c].pc = "create"
    /\ r = "ok" => nextFile <= MaxFiles
    /\ files' = StorageCreateFile(files, nextFile, r)
    /\ nextFile' = IF r = "ok" THEN nextFile + 1 ELSE nextFile
    /\ call' = [call EXCEPT ![c] = uploadFileAfterCreate(variant, @, r, nextFile)]
    /\ UNCHANGED <<posts, nextPost, variant, edgeVars, viewVars>>

\* deleteFile(fileId)
StartDeleteFile(c, id) ==
    /\ c \in DOMAIN call
    /\ call[c].op = "idle"
    /\ call' = [call EXCEPT ![c] =
                  [IdleCall EXCEPT !.op = "deleteFile", !.pc = "delete", !.imageId = id]]
    /\ UNCHANGED <<files, posts, nextFile, nextPost, variant, edgeVars, viewVars>>

\* The call after storage.deleteFile settled with r: {status: "ok"}, or the
\* error is rethrown (version 1) or logged (version 2).
deleteFileAfterDelete(v, cl, r) ==
    IF r = "ok" THEN Resolve(cl, NoId)
    ELSE IF deleteFileThrows(v, r) THEN Throw(cl, "deleteFile", "deleteFile")
    ELSE Swallow(cl, "deleteFile")

\* await storage.deleteFile(storageId, fileId): the store answers the id of a
\* file that is not in the bucket with a not-found error.
DeleteFileRequest(c, r) ==
    /\ c \in DOMAIN call
    /\ call[c].op = "deleteFile"
    /\ call[c].pc = "delete"
    /\ r \in DeleteOutcomes(call[c].imageId \in files)
    /\ files' = StorageDeleteFile(files, call[c].imageId, r)
    /\ call' = [call EXCEPT ![c] =
                  deleteFileAfterDelete(variant, Logged(@, "deleteFile", @.imageId, r), r)]
    /\ UNCHANGED <<posts, nextFile, nextPost, variant, edgeVars, viewVars>>

NextFile ==
    \E c \in Callers :
        \/ StartUploadFile(c)
        \/ \E r \in QueryOutcomes : UploadFileCreate(c, r)
        \/ \E id \in FileIds : StartDeleteFile(c, id)
        \/ \E r \in {"ok", "notfound", "reject"} : DeleteFileRequest(c, r)
        \/ Return(c)

SpecFile == InitBoth /\ [][NextFile]_vars

----------------------------------------------------------------------------
\* getPostById

\* databases.getDocument on a document id: the store returns a document that
\* is in the collection and answers an id that is not in it with a not-found
\* error; either way the request can fail in transit.
GetOutcomes(present) ==
    IF present THEN {"ok", "reject"} ELSE {"notfound", "reject"}

\* A faulty variant: the id is not tested and the request is always issued.
getPostByIdEntry_NoCheck(postId) ==
    [IdleCall EXCEPT !.op = "getPostById", !.pc = "get", !.postId = postId]

\* if (!postId) throw new Error("Post ID is required to fetch.")
getPostByIdEntry(postId) ==
    IF postId = NoId
    THEN Throw([IdleCall EXCEPT !.op = "getPostById"], "validation", "validation")
    ELSE [IdleCall EXCEPT !.op = "getPostById", !.pc = "get", !.postId = postId]

\* getPostById(postId), with a post id or without one.
StartGetPostById(c, p) ==
    /\ c \in DOMAIN call
    /\ call[c].op = "idle"
    /\ call' = [call EXCEPT ![c] = getPostByIdEntry(p)]
    /\ UNCHANGED <<files, posts, nextFile, nextPost, variant, edgeVars, viewVars>>

\* The call after databases.getDocument settled with r: the document is
\* returned, or the error is logged and rethrown.
getPostByIdAfterGet(cl, r) ==
    IF r = "ok" THEN Resolve(cl, cl.postId) ELSE Throw(cl, "get", "get")

\* const post = await databases.getDocument(databaseId, postCollectionId, postId)
GetPostByIdDocument(c, r) ==
    /\ c \in DOMAIN call
    /\ call[c].op = "getPostById"
    /\ call[c].pc = "get"
    /\ r \in GetOutcomes(posts[call[c].postId] # NoDoc)
    /\ call' = [call EXCEPT ![c] =
                  getPostByIdAfterGet(Logged(@, "getDocument", @.postId, r), r)]
    /\ UNCHANGED <<files, posts, nextFile, nextPost, variant, edgeVars, viewVars>>

\* getPostById next to the operations that write posts.
NextRead ==
    \/ Next
    \/ \E c \in Callers :
          \/ \E p \in PostIds \cup {NoId} : StartGetPostById(c, p)
          \/ \E r \in {"ok", "notfound", "reject"} : GetPostByIdDocument(c, r)

SpecRead == Init /\ [][NextRead]_vars

----------------------------------------------------------------------------
\* updateUser
\*
\* The call record is the one of the post operations; postId holds user.userId.

\* user.imageId and user.imageUrl of a caller that left the fields out.
UndefinedId == -2
UndefinedUrl == [fileId |-> UndefinedId, width |-> 0, height |-> 0, gravity |-> "", quality |-> 0]

\* The id as a condition tests it: undefined and "" are both falsy.
IdOrEmpty(id) == IF id = UndefinedId THEN NoId ELSE id

\* The clients that update one profile.
UserCallers == {1, 2}

\* let image = {imageUrl: user.imageUrl, imageId: user.imageId}; a caller
\* passes what it last read from the user document, or omits the fields.
StartUpdateUser(c, u, hasFile, pass) ==
    /\ c \in DOMAIN call
    /\ call[c].op = "idle"
    /\ LET id  == IF pass THEN userDocs[u].imageId ELSE UndefinedId
           url == IF pass THEN userDocs[u].imageUrl ELSE UndefinedUrl
       IN  call' = [call EXCEPT ![c] =
                      [IdleCall EXCEPT !.op = "updateUser", !.postId = u,
                                       !.hasFile = hasFile,
                                       !.imageId = id, !.imageUrl = url,
                                       !.image = [imageId |-> id, imageUrl |-> url],
                                       !.pc = IF hasFile THEN "upload" ELSE "persist"]]
    /\ UNCHANGED <<files, posts, nextFile, nextPost, variant, edgeVars, viewVars>>

\* catch (error) of updateUser: version 1 rethrows, version 2 only logs.
updateUserCatch(v, cl, primary, e) ==
    IF v = 1 THEN Throw(cl, primary, e) ELSE Swallow(cl, primary)

\* The call after uploadFile settled with r (file id when stored) and
\* getFilePreview was evaluated on the new id.
updateUserAfterUpload(v, cl, r, id, built) ==
    IF uploadFile(v, r) # "ok"
    THEN updateUserCatch(v, Logged(cl, "createFile", NoId, r), "upload", "upload")
    ELSE LET up  == [Logged(cl, "createFile", id, r) EXCEPT !.upId = id]
             url == getFilePreview(id, built)
         IN  IF url = NoUrl
             THEN [up EXCEPT !.pc = "previewCleanup", !.fail = "preview"]
             ELSE [up EXCEPT !.pc = "persist",
                             !.image = [imageId |-> id, imageUrl |-> url]]

\* if (hasFileToUpdate) { await uploadFile(user.file[0]); getFilePreview(...) }
UpdateUserUpload(c, r, built) ==
    /\ c \in DOMAIN call
    /\ call[c].op = "updateUser"
    /\ call[c].pc = "upload"
    /\ r = "ok" => nextFile <= MaxFiles
    /\ files' = StorageCreateFile(files, nextFile, r)
    /\ nextFile' = IF r = "ok" THEN nextFile + 1 ELSE nextFile
    /\ call' = [call EXCEPT ![c] = updateUserAfterUpload(variant, @, r, nextFile, built)]
    /\ UNCHANGED <<posts, nextPost, variant, edgeVars, viewVars>>

\* if (!fileUrl) { await deleteFile(uploadedFile.$id); throw ... }
UpdateUserPreviewCleanup(c, r) ==
    /\ c \in DOMAIN call
    /\ call[c].op = "updateUser"
    /\ call[c].pc = "previewCleanup"
    /\ files' = StorageDeleteFile(files, call[c].upId, r)
    /\ call' = [call EXCEPT ![c] =
                  updateUserCatch(variant, Logged(@, "deleteFile", @.upId, r), "preview",
                                  CompensationError(variant, r, "preview"))]
    /\ UNCHANGED <<posts, nextFile, nextPost, variant, edgeVars, viewVars>>

\* The call after databases.updateDocument settled with r.
updateUserAfterPersist(v, cl, r) ==
    LET lg == Logged(cl, "updateDocument", cl.postId, r)
    IN  CASE r = "ok" ->
               IF ShouldDeleteOldFile(v, cl.hasFile, IdOrEmpty(cl.imageId), cl.image.imageId)
               THEN [lg EXCEPT !.pc = "oldCleanup", !.ret = cl.postId]
               ELSE Resolve(lg, cl.postId)
          [] r = "reject" -> updateUserCatch(v, lg, "persist", "persist")
          [] r = "null" ->
               IF ShouldDeleteNewFile(v, cl.hasFile, IdOrEmpty(cl.image.imageId))
               THEN [lg EXCEPT !.pc = "persistCleanup", !.fail = "persist"]
               ELSE updateUserCatch(v, lg, "persist", "persist")

\* databases.updateDocument(users, userId, {imageUrl, imageId, ...}): a
\* resolved update replaces the fields sent; a field whose value is undefined
\* is not part of the request and keeps its stored value.
DbUpdateUser(us, u, image, r) ==
    IF r = "ok"
    THEN [us EXCEPT ![u] =
            [imageId  |-> IF image.imageId = UndefinedId THEN @.imageId ELSE image.imageId,
             imageUrl |-> IF image.imageUrl = UndefinedUrl THEN @.imageUrl ELSE image.imageUrl]]
    ELSE us

\* const updatedUser = await databases.updateDocument(..., user.userId, {...})
UpdateUserPersist(c, r) ==
    /\ c \in DOMAIN call
    /\ call[c].op = "updateUser"
    /\ call[c].pc = "persist"
    /\ userDocs' = DbUpdateUser(userDocs, call[c].postId, call[c].image, r)
    /\ call' = [call EXCEPT ![c] = updateUserAfterPersist(variant, @, r)]
    /\ UNCHANGED <<files, posts, nextFile, nextPost, variant, edgeVars,
                   likeVars, pageVars, tagVars, currentUser, isSaved>>

\* A faulty variant: the failed update deletes the avatar the caller passed.
updateUserPersistCleanupTarget_Old(cl) == cl.imageId

\* The file the failed-update branch of updateUser deletes: image.imageId.
updateUserPersistCleanupTarget(cl) == cl.image.imageId

\* if (!updatedUser) { if (...) await deleteFile(image.imageId); throw ... }
UpdateUserPersistCleanup(c, r) ==
    /\ c \in DOMAIN call
    /\ call[c].op = "updateUser"
    /\ call[c].pc = "persistCleanup"
    /\ LET id == updateUserPersistCleanupTarget(call[c])
       IN  /\ r \in DeleteOutcomes(id \in files)
           /\ files' = StorageDeleteFile(files, id, r)
           /\ call' = [call EXCEPT ![c] =
                         updateUserCatch(variant, Logged(@, "deleteFile", id, r), "persist",
                                         CompensationError(variant, r, "persist"))]
    /\ UNCHANGED <<posts, nextFile, nextPost, variant, edgeVars, viewVars>>

\* Version 1: try { await deleteFile(user.imageId) } catch { console.warn(...) }.
\* Version 2: await deleteFile(user.imageId), which logs and never throws.
\* Then return updatedUser.
updateUserAfterOldCleanup(v, cl, r) ==
    Resolve([Logged(cl, "deleteFile", cl.imageId, r) EXCEPT !.warned = (r # "ok")],
            cl.postId)

\* if (hasFileToUpdate && user.imageId && ...) await deleteFile(user.imageId)
UpdateUserOldCleanup(c, r) ==
    /\ c \in DOMAIN call
    /\ call[c].op = "updateUser"
    /\ call[c].pc = "oldCleanup"
    /\ r \in DeleteOutcomes(call[c].imageId \in files)
    /\ files' = StorageDeleteFile(files, call[c].imageId, r)
    /\ call' = [call EXCEPT ![c] = updateUserAfterOldCleanup(variant, @, r)]
    /\ UNCHANGED <<posts, nextFile, nextPost, variant, edgeVars, viewVars>>

\* Both versions of the API module; the user as registered, two clients.
InitUser ==
    /\ files = {}
    /\ posts = [p \in PostIds |-> NoDoc]
    /\ nextFile = 1
    /\ nextPost = 1
    /\ call = [c \in UserCallers |-> IdleCall]
    /\ variant \in {1, 2}
    /\ EdgesIdle
    /\ ViewsIdle

NextUser ==
    \E c \in UserCallers :
        \/ \E u \in UserDocIds, hasFile \in BOOLEAN, pass \in BOOLEAN :
               StartUpdateUser(c, u, hasFile, pass)
        \/ \E r \in Outcomes, built \in BOOLEAN : UpdateUserUpload(c, r, built)
        \/ \E r \in VoidOutcomes : UpdateUserPreviewCleanup(c, r)
        \/ \E r \in Outcomes : UpdateUserPersist(c, r)
        \/ \E r \in {"ok", "notfound", "reject"} : UpdateUserPersistCleanup(c, r)
        \/ \E r \in {"ok", "notfound", "reject"} : UpdateUserOldCleanup(c, r)
        \/ Return(c)

SpecUser == InitUser /\ [][NextUser]_vars

----------------------------------------------------------------------------
\* Properties

Done(cl) == cl.pc = "done"

\* The call issued store request o and it settled with r.
HasLog(cl, o, r) == \E i \in 1..Len(cl.log) : cl.log[i].op = o /\ cl.log[i].res = r

\* Caller c took the step.
Stepped(c) == call'[c] # call[c]
\* Caller c's call settled in this step.
Returned(c) == call[c].pc # "done" /\ call'[c].pc = "done"

\* C1: when createPost returns, the file it uploaded is in storage exactly
\* when a post document referencing that file exists (all-or-nothing).
C1_CreateAllOrNothing ==
    [][\A c \in DOMAIN call :
          (Returned(c) /\ call'[c].op = "createPost" /\ call'[c].upId # NoId)
          => ((call'[c].upId \in files')
              <=> (\E p \in PostIds : posts'[p] # NoDoc
                                      /\ posts'[p].imageId = call'[c].upId))]_vars

\* C2: once createPost has returned after databases.createDocument rejected,
\* the file it uploaded is no longer in storage.
C2_PersistRejectDeletesFile ==
    \A c \in DOMAIN call :
        (Done(call[c]) /\ call[c].op = "createPost"
         /\ HasLog(call[c], "createDocument", "reject"))
        => call[c].upId \notin files

C4_NoDanglingImageId ==
    \A p \in PostIds :
        posts[p] # NoDoc => (posts[p].imageId = NoId \/ posts[p].imageId \in files)

\* C5: a call in which a primary step failed rejects, and with the error of
\* that step; a failed compensating deleteFile never becomes the call's error
\* and never turns a successful result into an error.
C5_PrimaryErrorSurfaces ==
    \A c \in DOMAIN call :
        Done(call[c])
        => /\ call[c].fail # "none"
                => (call[c].result = "error" /\ call[c].err = call[c].fail)
           /\ call[c].fail = "none"
                => (call[c].result = "ok" /\ call[c].err = "none")

\* C6: once updatePost with a new file has returned after
\* databases.updateDocument failed, the new file is no longer in storage, the
\* document was not written and no other file was deleted by the call.
C6_UpdatePersistFailDeletesNewFile ==
    \A c \in DOMAIN call :
        (Done(call[c]) /\ call[c].op = "updatePost" /\ call[c].hasFile
         /\ call[c].fail = "persist")
        => /\ call[c].upId \notin files
           /\ ~HasLog(call[c], "updateDocument", "ok")
           /\ \A i \in 1..Len(call[c].log) :
                 call[c].log[i].op = "deleteFile" => call[c].log[i].id = call[c].upId

\* C7: in updatePost with a new file, every step up to and including a failed
\* upload or a failed preview leaves the post collection unchanged and removes
\* no file other than the one this call uploaded; the call then rejects.
C7_UpdateEarlyFailureFrame ==
    [][\A c \in DOMAIN call :
          (Stepped(c) /\ call[c].op = "updatePost" /\ call[c].hasFile
           /\ call[c].pc \in {"upload", "previewCleanup"})
          => /\ posts' = posts
             /\ (files \ files') \subseteq ({call'[c].upId} \ {NoId})
             /\ call'[c].pc \in {"done", "previewCleanup", "persist"}
             /\ call'[c].pc = "done"
                  => (call'[c].result = "error" /\ call'[c].fail \in {"upload", "preview"})]_vars

\* A preview failure in updatePost was compensated: the new file is gone, the
\* document and the asset it references are still in place.
C7_Witness ==
    \E c \in DOMAIN call :
        /\ Done(call[c]) /\ call[c].op = "updatePost" /\ call[c].hasFile
        /\ call[c].fail = "preview" /\ call[c].result = "error"
        /\ HasLog(call[c], "deleteFile", "ok")
        /\ call[c].upId \notin files
        /\ call[c].imageId # NoId /\ call[c].imageId \in files
        /\ posts[call[c].postId] # NoDoc
        /\ posts[call[c].postId].imageId = call[c].imageId

\* C8: an updatePost with a new file whose document update succeeded resolves
\* with the updated post; a rejected delete of the old file is only logged.
C8_OldFileDeleteFailureNotSurfaced ==
    \A c \in DOMAIN call :
        (Done(call[c]) /\ call[c].op = "updatePost" /\ call[c].hasFile
         /\ HasLog(call[c], "updateDocument", "ok"))
        => /\ call[c].result = "ok"
           /\ call[c].err = "none"
           /\ call[c].ret = call[c].postId
           /\ HasLog(call[c], "deleteFile", "reject") => call[c].warned

\* The old-file delete rejected after a successful document update.
C8_Witness ==
    \E c \in DOMAIN call :
        /\ Done(call[c]) /\ call[c].op = "updatePost" /\ call[c].hasFile
        /\ HasLog(call[c], "updateDocument", "ok")
        /\ HasLog(call[c], "deleteFile", "reject")
        /\ call[c].result = "ok"
        /\ call[c].imageId \in files

\* C9: an updatePost without a new file issues no storage request and no step
\* of it changes the set of stored files.
C9_UpdateWithoutFileTouchesNoStorage ==
    [][\A c \in DOMAIN call :
          (Stepped(c) /\ call'[c].op = "updatePost" /\ ~call'[c].hasFile)
          => /\ files' = files
             /\ \A i \in 1..Len(call'[c].log) : call'[c].log[i].op = "updateDocument"]_vars

\* An updatePost without a new file succeeded on a post that has an asset.
C9_Witness ==
    \E c \in DOMAIN call :
        /\ Done(call[c]) /\ call[c].op = "updatePost" /\ ~call[c].hasFile
        /\ call[c].result = "ok"
        /\ call[c].imageId # NoId /\ call[c].imageId \in files
        /\ posts[call[c].postId].imageId = call[c].imageId

\* C10: deletePost issues a storage request only after the document delete
\* resolved; a rejected document delete ends the call with that error and
\* changes neither the post collection nor the stored files.
C10_DeleteDocumentFirst ==
    [][\A c \in DOMAIN call :
          (Stepped(c) /\ call[c].op = "deletePost")
          => /\ (files' # files \/ call[c].pc = "assetCleanup")
                  => (HasLog(call[c], "deleteDocument", "ok")
                      /\ posts[call[c].postId] = NoDoc)
             /\ (call[c].pc = "deleteDocument"
                 /\ HasLog(call'[c], "deleteDocument", "reject"))
                  => /\ call'[c].pc = "done"
                     /\ call'[c].result = "error"
                     /\ call'[c].err = "deleteDocument"
                     /\ Len(call'[c].log) = 1
                     /\ posts' = posts
                     /\ files' = files]_vars

\* The document delete rejected: the document and its asset are still stored.
C10_Witness ==
    \E c \in DOMAIN call :
        /\ Done(call[c]) /\ call[c].op = "deletePost"
        /\ call[c].result = "error" /\ call[c].err = "deleteDocument"
        /\ call[c].imageId # NoId /\ call[c].imageId \in files
        /\ posts[call[c].postId] # NoDoc
        /\ posts[call[c].postId].imageId = call[c].imageId
\* C11: once deletePost has deleted the post document it returns the success
\* status, whether the delete of the image file succeeded or failed; the
\* failure of the file delete is logged and never returned.
C11_DeletePostAssetFailureNotSurfaced ==
    \A c \in DOMAIN call :
        (call[c].op = "deletePost" /\ HasLog(call[c], "deleteDocument", "ok"))
        => /\ call[c].pc \in {"assetCleanup", "done"}
           /\ Done(call[c]) => /\ call[c].result = "ok"
                               /\ call[c].err = "none"
                               /\ call[c].fail = "none"
           /\ HasLog(call[c], "deleteFile", "reject") => call[c].warned

\* deletePost resolved although the delete of the image file was rejected.
C11_Witness ==
    \E c \in DOMAIN call :
        /\ Done(call[c]) /\ call[c].op = "deletePost"
        /\ HasLog(call[c], "deleteDocument", "ok")
        /\ HasLog(call[c], "deleteFile", "reject")
        /\ call[c].result = "ok"
        /\ posts[call[c].postId] = NoDoc
        /\ call[c].imageId \in files

\* C12: a createPost whose upload failed has settled with the upload error
\* and the upload is the only store request it issued: no file delete, no
\* document create.
C12_UploadFailureFrame ==
    \A c \in DOMAIN call :
        (call[c].op = "createPost" /\ Len(call[c].log) >= 1
         /\ call[c].log[1].op = "createFile" /\ call[c].log[1].res # "ok")
        => /\ Done(call[c])
           /\ call[c].result = "error"
           /\ call[c].err = "upload"
           /\ Len(call[c].log) = 1
           /\ call[c].upId = NoId
           /\ call[c].image.imageId = NoId

\* createPost rejected with the upload error; storage and the posts
\* collection are as they were before the call.
C12_Witness ==
    \E c \in DOMAIN call :
        /\ Done(call[c]) /\ call[c].op = "createPost"
        /\ call[c].log = <<LogEntry("createFile", NoId, "reject")>>
        /\ call[c].result = "error" /\ call[c].err = "upload"
        /\ files = {}
        /\ \A p \in PostIds : posts[p] = NoDoc

\* C13: at the step in which createPost resolves, the document it returns is
\* in the posts collection and its imageId is the id of a stored file.
C13_ReturnedImageIdStored ==
    [][\A c \in DOMAIN call :
          (Returned(c) /\ call'[c].op = "createPost" /\ call'[c].result = "ok")
          => /\ call'[c].ret \in PostIds
             /\ posts'[call'[c].ret] # NoDoc
             /\ posts'[call'[c].ret].imageId = call'[c].upId
             /\ posts'[call'[c].ret].imageId \in files']_vars

\* createPost resolved with a document whose image file is stored.
C13_Witness ==
    \E c \in DOMAIN call :
        /\ Done(call[c]) /\ call[c].op = "createPost" /\ call[c].result = "ok"
        /\ call[c].ret \in PostIds
        /\ posts[call[c].ret] # NoDoc
        /\ posts[call[c].ret].imageId = call[c].upId
        /\ call[c].upId \in files

\* C14: no call swallows a failure: a call in which a store request failed
\* rejects and never resolves to undefined.
C14_NoSilentSwallow ==
    \A c \in DOMAIN call :
        (Done(call[c]) /\ call[c].fail # "none")
        => /\ call[c].result = "error"
           /\ call[c].result # "undefined"
\* C15: savePost is idempotent for calls that do not overlap: when a save
\* document for (user, post) exists nothing is created, so calls issued one
\* after the other leave at most one save document for a pair.
C15_SavePostIdempotent ==
    /\ \A u \in Savers, p \in SavedPostIds : Cardinality(SavesOf(saves, u, p)) <= 1
    /\ \A c \in DOMAIN ecall :
          (Done(ecall[c]) /\ ecall[c].op = "savePost" /\ ecall[c].result = "ok")
          => SavesOf(saves, ecall[c].a, ecall[c].b)
                 = {[id |-> ecall[c].ret, user |-> ecall[c].a, post |-> ecall[c].b]}

\* C16: a savePost call whose existence query found nothing creates a save
\* document when its createDocument resolves, whatever has been created for
\* the pair since the query: two overlapping calls can both query before
\* either creates, and then both create.
C16_CreateAfterStaleQuery ==
    [][\A c \in DOMAIN ecall :
          (ecall[c].op = "savePost" /\ ecall[c].pc = "create"
           /\ ecall'[c].pc = "done" /\ ecall'[c].result = "ok")
          => /\ HasLog(ecall[c], "listDocuments", "ok")
             /\ saves' = saves \cup {[id |-> ecall'[c].ret, user |-> ecall[c].a,
                                      post |-> ecall[c].b]}
             /\ Cardinality(SavesOf(saves', ecall[c].a, ecall[c].b))
                  = Cardinality(SavesOf(saves, ecall[c].a, ecall[c].b)) + 1]_vars

\* Two savePost calls for the same pair each queried, found nothing and
\* created: the collection holds two save documents for the pair.
C16_Witness ==
    \E c1, c2 \in DOMAIN ecall :
        /\ c1 # c2
        /\ \A c \in {c1, c2} :
              /\ Done(ecall[c]) /\ ecall[c].op = "savePost" /\ ecall[c].result = "ok"
              /\ Len(ecall[c].log) = 2
              /\ ecall[c].log[1] = LogEntry("listDocuments", NoId, "ok")
              /\ ecall[c].log[2].op = "createDocument" /\ ecall[c].log[2].res = "ok"
        /\ ecall[c1].a = ecall[c2].a /\ ecall[c1].b = ecall[c2].b
        /\ ecall[c1].ret # ecall[c2].ret
        /\ Cardinality(SavesOf(saves, ecall[c1].a, ecall[c1].b)) = 2

\* C17: when two save documents exist for a pair, the unsave issued by the
\* save button (deleteSavedPost of the record it found) leaves no save
\* document for the pair once it has resolved.
C17_UnsaveRemovesAllMatches ==
    [][\A c \in DOMAIN ecall :
          (ecall[c].op = "deleteSavedPost" /\ ecall[c].pc = "delete"
           /\ ecall[c].a # NoId
           /\ Cardinality(SavesOf(saves, ecall[c].a, ecall[c].b)) = 2
           /\ ecall'[c].pc = "done" /\ ecall'[c].result = "ok")
          => SavesOf(saves', ecall[c].a, ecall[c].b) = {}]_vars

\* C18: deleteSavedPost with the id of a save document that is not in the
\* collection returns the success status, not an error.
C18_DeleteAbsentSaveSucceeds ==
    \A c \in DOMAIN ecall :
        (Done(ecall[c]) /\ ecall[c].op = "deleteSavedPost"
         /\ HasLog(ecall[c], "deleteDocument", "notfound"))
        => /\ ecall[c].result = "ok"
           /\ ecall[c].err = "none"

\* No store request of the call failed.
AllRequestsOk(cl) == \A i \in 1..Len(cl.log) : cl.log[i].res = "ok"

\* C19: followUser(a, a) is rejected with a validation error and creates
\* nothing: no follow document has followerId equal to followingId.
C19_NoSelfFollow ==
    /\ \A d \in follows : d.followerId # d.followingId
    /\ \A c \in DOMAIN ecall :
          (Done(ecall[c]) /\ ecall[c].op = "followUser" /\ ecall[c].a = ecall[c].b
           /\ AllRequestsOk(ecall[c]))
          => /\ ecall[c].result = "error"
             /\ ecall[c].err = "validation"

\* C20: unfollowUser(a, a) is rejected with a validation error; it does not
\* return the success status.
C20_SelfUnfollowRejected ==
    \A c \in DOMAIN ecall :
        (Done(ecall[c]) /\ ecall[c].op = "unfollowUser" /\ ecall[c].a = ecall[c].b
         /\ AllRequestsOk(ecall[c]))
        => /\ ecall[c].result = "error"
           /\ ecall[c].err = "validation"
\* Caller c's relationship call took the step.
EdgeStepped(c) == ecall'[c] # ecall[c]
\* Caller c's relationship call settled in this step.
EdgeReturned(c) == ecall[c].pc # "done" /\ ecall'[c].pc = "done"

\* C21: at the step in which unfollowUser(f, g) returns success none of the
\* follow documents its query matched for the pair (f, g) is left, however
\* many there were.
C21_UnfollowRemovesAllMatches ==
    [][\A c \in DOMAIN ecall :
          (EdgeReturned(c) /\ ecall'[c].op = "unfollowUser" /\ ecall'[c].result = "ok")
          => \A d \in follows' : d.id \notin ecall'[c].matched]_vars

\* C22: an unfollowUser whose query finds no follow document for the pair
\* returns the success status in that step; the query is its only store
\* request and the followers collection is unchanged.
C22_UnfollowAbsentIsNoOp ==
    [][\A c \in DOMAIN ecall :
          (ecall[c].op = "unfollowUser" /\ ecall[c].pc = "query" /\ EdgeStepped(c)
           /\ FollowsOf(follows, ecall[c].a, ecall[c].b) = {}
           /\ HasLog(ecall'[c], "listDocuments", "ok"))
          => /\ Done(ecall'[c])
             /\ ecall'[c].result = "ok"
             /\ ecall'[c].err = "none"
             /\ ecall'[c].log = <<LogEntry("listDocuments", NoId, "ok")>>
             /\ follows' = follows]_vars

\* unfollowUser returned success for a pair that has no follow document,
\* having issued the query only.
C22_Witness ==
    \E c \in DOMAIN ecall :
        /\ Done(ecall[c]) /\ ecall[c].op = "unfollowUser"
        /\ ecall[c].a # ecall[c].b
        /\ ecall[c].result = "ok"
        /\ ecall[c].log = <<LogEntry("listDocuments", NoId, "ok")>>
        /\ FollowsOf(follows, ecall[c].a, ecall[c].b) = {}

\* C23: no ordered pair (followerId, followingId) has more than one follow
\* document.
C23_AtMostOneFollowPerPair ==
    \A f \in Users, g \in Users : Cardinality(FollowsOf(follows, f, g)) <= 1

\* C24: a followUser(f, g) with f # g whose query finds a follow document for
\* the pair returns a document of the pair and creates nothing; one that
\* finds none goes on to create, and a resolved create adds exactly the one
\* document it returns.
C24_FollowUserIdempotent ==
    [][\A c \in DOMAIN ecall :
          (ecall[c].op = "followUser" /\ ecall[c].a # ecall[c].b /\ EdgeStepped(c))
          => /\ (ecall[c].pc = "query" /\ HasLog(ecall'[c], "listDocuments", "ok"))
                => /\ follows' = follows
                   /\ IF FollowsOf(follows, ecall[c].a, ecall[c].b) # {}
                      THEN /\ Done(ecall'[c])
                           /\ ecall'[c].result = "ok"
                           /\ \E d \in FollowsOf(follows, ecall[c].a, ecall[c].b) :
                                 d.id = ecall'[c].ret
                      ELSE ecall'[c].pc = "create"
             /\ (ecall[c].pc = "create" /\ ecall'[c].result = "ok")
                => /\ \A d \in follows : d.id # ecall'[c].ret
                   /\ follows' = follows \cup
                        {[id |-> ecall'[c].ret, followerId |-> ecall[c].a,
                          followingId |-> ecall[c].b]}
             /\ (ecall[c].pc = "create" /\ ecall'[c].result # "ok")
                => follows' = follows]_vars

\* followUser found the follow document of the pair and returned it: the
\* pair still has exactly that one document.
C24_Witness ==
    \E c \in DOMAIN ecall :
        /\ Done(ecall[c]) /\ ecall[c].op = "followUser"
        /\ ecall[c].a # ecall[c].b
        /\ ecall[c].result = "ok"
        /\ ecall[c].log = <<LogEntry("listDocuments", NoId, "ok")>>
        /\ FollowsOf(follows, ecall[c].a, ecall[c].b)
             = {[id |-> ecall[c].ret, followerId |-> ecall[c].a,
                 followingId |-> ecall[c].b]}
\* The set of user ids in a likes array.
LikeSet(ls) == {ls[i] : i \in 1..Len(ls)}
\* How often user u occurs in a likes array.
LikeCount(ls, u) == Cardinality({i \in 1..Len(ls) : ls[i] = u})

\* C25: the like toggle has set semantics: for the likes of any component
\* and any user, toggling a user who is in the array gives the array without
\* that user, toggling a user who is not in it gives the array with that
\* user added once, and toggling the same user twice gives the original set.
C25_LikeToggleSetSemantics ==
    \A c \in DOMAIN likes : \A u \in LikeUsers :
        LET ls   == likes[c]
            once == updatedLikes(ls, u)
        IN  /\ checkIsLiked(ls, u)
               => /\ LikeSet(once) = LikeSet(ls) \ {u}
                  /\ \A v \in LikeUsers : v # u => LikeCount(once, v) = LikeCount(ls, v)
            /\ ~checkIsLiked(ls, u)
               => /\ LikeSet(once) = LikeSet(ls) \cup {u}
                  /\ LikeCount(once, u) = 1
                  /\ \A v \in LikeUsers : v # u => LikeCount(once, v) = LikeCount(ls, v)
            /\ LikeSet(updatedLikes(once, u)) = LikeSet(ls)
            /\ lcall[c].pc = "update" => lcall[c].likesArray \in LikeArrays

\* A component whose user had liked a post liked by both users has toggled
\* the like off: its likes, sent to likePost, hold the other user only.
C25_Witness ==
    \E c \in DOMAIN likes :
        /\ lcall[c].pc = "update"
        /\ lcall[c].likesArray = likes[c]
        /\ LikeSet(postLikes) = LikeUsers
        /\ LikeSet(likes[c]) = LikeUsers \ {userId(c)}
        /\ updatedLikes(likes[c], userId(c)) \in LikeArrays
        /\ LikeSet(updatedLikes(likes[c], userId(c))) = LikeUsers

\* C26: a likePost whose update resolves leaves the array it was given as the
\* stored likes, whatever was stored before, and returns it; when that array
\* was stored already the stored likes do not change. A failed update
\* leaves the stored likes as they were.
C26_LikePostReplaces ==
    [][\A c \in DOMAIN lcall :
          (lcall[c].pc = "update" /\ lcall'[c].pc = "done")
          => /\ lcall'[c].result = "ok"
                => /\ postLikes' = lcall[c].likesArray
                   /\ lcall'[c].ret = lcall[c].likesArray
                   /\ postLikes = lcall[c].likesArray => postLikes' = postLikes
             /\ lcall'[c].result # "ok" => postLikes' = postLikes]_vars

\* likePost resolved with a non-empty array that replaced the stored likes.
C26_Witness ==
    \E c \in DOMAIN lcall :
        /\ lcall[c].pc = "done" /\ lcall[c].result = "ok"
        /\ Len(lcall[c].likesArray) = 1
        /\ postLikes = lcall[c].likesArray
        /\ Len(likes[c]) = 2
\* The ids of the documents on a page.
PageIds(page) == {page[i] : i \in 1..Len(page)}
\* The number of documents on the pages returned so far.
Listed == LET RECURSIVE Sum(_)
              Sum(n) == IF n = 0 THEN 0 ELSE Len(pages[n]) + Sum(n - 1)
          IN  Sum(Len(pages))

\* C27: against a collection that does not change, the page returned for the
\* cursor taken from the last document of page 1 holds no document of page 1.
C27_SecondPageDisjoint ==
    Len(pages) >= 2 => PageIds(pages[1]) \cap PageIds(pages[2]) = {}

\* Page 2 was fetched with the cursor of a full page 1 and is not empty; its
\* first document has the same $updatedAt as the last document of page 1.
C27_Witness ==
    /\ Len(pages) >= 2
    /\ Len(pages[1]) = PageSize
    /\ pages[2] # <<>>
    /\ feed[pages[2][1]] = feed[pages[1][PageSize]]
    /\ PageIds(pages[1]) \cap PageIds(pages[2]) = {}

\* C28: every page has at most PageSize documents and is in descending order
\* of $updatedAt; the pages returned so far hold no document twice, and once
\* the listing has ended they hold every document of the collection.
C28_PagesCoverFeedOnce ==
    /\ \A n \in 1..Len(pages) :
          /\ Len(pages[n]) <= PageSize
          /\ \A i, j \in 1..Len(pages[n]) : i < j => feed[pages[n][i]] >= feed[pages[n][j]]
          /\ PageIds(pages[n]) \subseteq 1..Len(feed)
          /\ Cardinality(PageIds(pages[n])) = Len(pages[n])
    /\ \A n, k \in 1..Len(pages) : n < k => PageIds(pages[n]) \cap PageIds(pages[k]) = {}
    /\ \A n, k \in 1..Len(pages) :
          (n < k /\ pages[k] # <<>>) => feed[pages[n][Len(pages[n])]] >= feed[pages[k][1]]
    /\ ~hasNextPage => UNION {PageIds(pages[n]) : n \in 1..Len(pages)} = 1..Len(feed)
    /\ Listed <= Len(feed)

\* A listing of more than two full pages has ended: every post was returned
\* once, on pages of at most PageSize documents.
C28_Witness ==
    /\ ~hasNextPage
    /\ Len(feed) > 2 * PageSize
    /\ Len(pages) = 4
    /\ Listed = Len(feed)
    /\ \E i, j \in 1..Len(feed) : i < j /\ feed[i] > feed[j]
    /\ \E i, j \in 1..Len(feed) : i # j /\ feed[i] = feed[j]
\* A string made of whitespace only, the empty string included.
Blank(str) == \A i \in 1..Len(str) : str[i] \in {Space, Tab}

\* C29: the tags array holds the comma-separated pieces of the tag string with
\* every whitespace character removed; "a, b ,c" gives ["a","b","c"], and an
\* empty or whitespace-only string gives [] and never [""].
C29_TagParsing ==
    (parsed # "none" /\ tags # Undefined) =>
        /\ \A n \in 1..Len(tagList) : \A i \in 1..Len(tagList[n]) :
               tagList[n][i] \notin {Space, Tab}
        /\ tags = ExampleTags => tagList = << <<"a">>, <<"b">>, <<"c">> >>
        /\ Blank(tags) => tagList = <<>>
\* C30: deleteFile of a file id that is not in storage reports success: a
\* call that the store answered with not-found resolves with {status: "ok"}.
C30_DeleteFileIdempotent ==
    \A c \in DOMAIN call :
        (call[c].op = "deleteFile" /\ Done(call[c])
            /\ HasLog(call[c], "deleteFile", "notfound")) =>
        call[c].result = "ok"

\* C31: deletePost and getPostById called without a postId reject with a
\* validation error in the step that enters them: no store request is issued
\* and neither the post documents nor the stored files change.
C31_MissingPostIdRejected ==
    [][\A c \in DOMAIN call :
          (Stepped(c) /\ call'[c].op \in {"deletePost", "getPostById"}
              /\ call'[c].postId = NoId) =>
          /\ Done(call'[c])
          /\ call'[c].result = "error"
          /\ call'[c].err = "validation"
          /\ call'[c].log = <<>>
          /\ UNCHANGED <<files, posts>>]_vars

\* Both operations were entered without a postId, with a post stored.
C31_Witness ==
    /\ \E p \in PostIds : posts[p] # NoDoc
    /\ files # {}
    /\ \E c \in DOMAIN call :
          /\ call[c].op = "getPostById"
          /\ call[c].postId = NoId
          /\ call[c].err = "validation"

\* The store requests of a call that move it forward: the upload and the
\* document create (deleteFile only undoes).
ForwardStep(o) == o \in {"createFile", "createDocument"}

\* C32: createPost issues the upload first and the document create second,
\* the create only after the upload succeeded and the preview URL is not null;
\* once a step has failed the call issues no further forward step.
C32_CreatePostStepOrder ==
    \A c \in DOMAIN call :
        call[c].op = "createPost" =>
            LET log == call[c].log IN
            /\ \A i \in 1..Len(log) :
                  /\ log[i].op = "createFile" => i = 1
                  /\ log[i].op = "createDocument" =>
                        /\ i = 2
                        /\ log[1].op = "createFile"
                        /\ log[1].res = "ok"
                        /\ call[c].image.imageUrl # NoUrl
                  /\ (ForwardStep(log[i].op) /\ log[i].res # "ok") =>
                        \A j \in (i + 1)..Len(log) : ~ForwardStep(log[j].op)
            /\ call[c].pc = "persist" =>
                  /\ Len(log) = 1
                  /\ log[1].res = "ok"
                  /\ call[c].image.imageUrl # NoUrl
            /\ call[c].fail \in {"upload", "preview"} =>
                  ~HasLog(call[c], "createDocument", "ok")
                  /\ ~HasLog(call[c], "createDocument", "reject")
                  /\ ~HasLog(call[c], "createDocument", "null")

\* A createPost went through upload, preview and persist, the persist failed
\* and the call ended after deleting the upload.
C32_Witness ==
    \E c \in DOMAIN call :
        /\ call[c].op = "createPost"
        /\ Done(call[c])
        /\ call[c].fail = "persist"
        /\ Len(call[c].log) = 3
        /\ call[c].log[2].op = "createDocument"
        /\ call[c].log[3].op = "deleteFile"

\* The positions in the request log of cl at which the file the caller passed
\* as post.imageId was the target of a deleteFile.
OldFileDeletes(cl) ==
    {i \in 1..Len(cl.log) : cl.log[i].op = "deleteFile" /\ cl.log[i].id = cl.imageId}

\* C33: an updatePost issues a deleteFile for the caller's old imageId at most
\* once, only after its updateDocument resolved, and only when a new file is
\* uploaded and the old id is non-empty and differs from the new file's id; a
\* call that failed has issued none.
C33_OldFileDeletedAfterUpdate ==
    \A c \in DOMAIN call :
        (call[c].op = "updatePost" /\ call[c].imageId # NoId) =>
            /\ Cardinality(OldFileDeletes(call[c])) <= 1
            /\ \A i \in OldFileDeletes(call[c]) :
                  /\ \E j \in 1..(i - 1) :
                        /\ call[c].log[j].op = "updateDocument"
                        /\ call[c].log[j].res = "ok"
                  /\ call[c].hasFile
                  /\ call[c].upId # NoId
                  /\ call[c].imageId # call[c].upId
            /\ (call[c].fail # "none" \/ call[c].result = "error") =>
                  OldFileDeletes(call[c]) = {}

\* An updatePost with a new file returned after its update resolved and the
\* old file was deleted.
C33_Witness ==
    \E c \in DOMAIN call :
        /\ call[c].op = "updatePost"
        /\ Done(call[c])
        /\ call[c].result = "ok"
        /\ call[c].imageId # NoId
        /\ call[c].imageId \notin files
        /\ OldFileDeletes(call[c]) # {}

\* C34: an updatePost without a new file that returns successfully leaves the
\* imageId and imageUrl stored in the post document as they were, whether the
\* caller passed the fields or omitted them.
C34_NoFileUpdateKeepsImage ==
    [][\A c \in DOMAIN call :
          (Returned(c) /\ call'[c].op = "updatePost" /\ ~call'[c].hasFile
              /\ call'[c].result = "ok") =>
          /\ posts'[call'[c].postId].imageId = posts[call'[c].postId].imageId
          /\ posts'[call'[c].postId].imageUrl = posts[call'[c].postId].imageUrl]_vars

\* The set of likes the likesArray of component c's call was toggled from.
ToggledFrom(c) == LikeSet(updatedLikes(lcall[c].likesArray, userId(c)))

\* C35: likePost is last-writer-wins with no merge: when the likePost calls of
\* two components have both resolved, the stored likes are the likesArray of
\* one of the two calls, and when the two arrays were toggled from the same
\* list by different users the stored likes do not hold both changes.
C35_LikePostLastWriterWins ==
    \A c1, c2 \in DOMAIN lcall :
        (/\ c1 # c2
         /\ lcall[c1].pc = "done" /\ lcall[c1].result = "ok"
         /\ lcall[c2].pc = "done" /\ lcall[c2].result = "ok") =>
            /\ postLikes \in {lcall[c1].likesArray, lcall[c2].likesArray}
            /\ (userId(c1) # userId(c2) /\ ToggledFrom(c1) = ToggledFrom(c2)) =>
                  LET base   == ToggledFrom(c1)
                      both   == {userId(c1), userId(c2)}
                      merged == (base \ both) \cup (both \ base)
                  IN  LikeSet(postLikes) # merged

\* Both users liked the post from the same empty list; the update of the
\* second landed last and the like of the first is not stored.
C35_Witness ==
    /\ lcall[1].pc = "done" /\ lcall[1].result = "ok"
    /\ lcall[2].pc = "done" /\ lcall[2].result = "ok"
    /\ lcall[1].likesArray = <<1>>
    /\ lcall[2].likesArray = <<2>>
    /\ likes[1] = <<1>>
    /\ postLikes = <<2>>

\* The files that the deleteFile requests of call cl removed from storage.
DeletedBy(cl) ==
    {cl.log[i].id : i \in {k \in 1..Len(cl.log) :
                              cl.log[k].op = "deleteFile" /\ cl.log[k].res = "ok"}}

\* The call's updateDocument resolved.
UserDocUpdated(cl) == HasLog(cl, "updateDocument", "ok")

\* C36 as stated: after an updateUser call has settled, the imageId of the
\* user document is not a file that this call deleted.
C36_DocNeverRefersToDeleted ==
    \A c \in DOMAIN call :
        (call[c].op = "updateUser" /\ Done(call[c])) =>
            userDocs[call[c].postId].imageId \notin DeletedBy(call[c])

\* C36, amended: an updateUser deletes the avatar the caller passed only
\* after its updateDocument resolved with the id of the newly uploaded file,
\* deletes the newly uploaded file only when its updateDocument did not
\* resolve, deletes no other file, and so never deletes the file whose id its
\* own update wrote into the user document.
C36_UpdateUserDeleteOrder ==
    \A c \in DOMAIN call :
        call[c].op = "updateUser" =>
            LET cl  == call[c]
                log == cl.log
            IN  /\ \A i \in 1..Len(log) :
                      log[i].op = "deleteFile" =>
                          /\ log[i].id \notin {NoId, UndefinedId}
                          /\ log[i].id \in {cl.upId, cl.imageId}
                          /\ log[i].id = cl.imageId =>
                                /\ \E j \in 1..(i - 1) :
                                      log[j].op = "updateDocument" /\ log[j].res = "ok"
                                /\ cl.hasFile
                                /\ cl.upId # NoId
                                /\ cl.image.imageId = cl.upId
                                /\ cl.imageId # cl.upId
                          /\ log[i].id = cl.upId => ~UserDocUpdated(cl)
                /\ UserDocUpdated(cl) => cl.image.imageId \notin DeletedBy(cl)

\* An updateUser with a new file returned after the user document was updated
\* to the new file and the previous avatar was deleted.
C36_Witness ==
    \E c \in DOMAIN call :
        /\ call[c].op = "updateUser"
        /\ Done(call[c])
        /\ call[c].result = "ok"
        /\ call[c].imageId \in DeletedBy(call[c])
        /\ userDocs[call[c].postId].imageId = call[c].upId
        /\ call[c].upId \in files

\* C37: a click on the save button of a PostStats whose isSaved is true
\* issues deleteSavedPost, never savePost.
C37_SavedClickDeletes ==
    [][\A c \in DOMAIN ecall : \A k \in DOMAIN isSaved :
          (/\ ecall[c].op = "idle"
           /\ ecall'[c].op # "idle"
           /\ ecall'[c].a = k[1]
           /\ ecall'[c].b = k[2]
           /\ isSaved[k]) =>
          ecall'[c].op = "deleteSavedPost"]_vars
====
